---- MODULE Spec2Model ----
(***************************************************************************)
(* file-sharing-api: the quota engine (RateLimitService over a Redis       *)
(* counter store), the HTTP request flows of FileController, and the two   *)
(* storage backends (LocalStorage, GoogleCloudStorage) with their sweep.   *)
(* Every handler is split at its await points: one action per awaited      *)
(* store / filesystem call, so that concurrent requests interleave as the  *)
(* Node.js event loop lets them.                                            *)
(***************************************************************************)
EXTENDS Integers, Sequences, FiniteSets, TLC

(*------------------------------ bounds ---------------------------------*)
\* the clock runs over 0..MaxTicks; a UTC day has TicksPerDay ticks
MaxTicks == 2
TicksPerDay == 2
\* config.dailyUploadLimit / config.dailyDownloadLimit after parseSize, scaled down
UploadLimit == 3
DownloadLimit == 2
\* how many counter-store calls may fail in one behaviour
MaxRedisFaults == 1
\* how many filesystem / bucket calls may fail in one behaviour
MaxIoFaults == 1
\* how many uploads (key pairs) one behaviour sees
MaxKeys == 2
\* how many HTTP requests, backend calls and sweeps one behaviour starts
MaxCalls == 3
\* how many calls the sequence run on both backends has
MaxOps == 3
\* how many direct calls of the quota engine one behaviour starts
MaxDirectCalls == 2
\* config.inactivityPeriod after parseInactivityPeriod, in ticks
InactivityTicks == 1

(*--------------------------- program constants -------------------------*)
\* the TTL given to client.expire (seconds)
ExpireSeconds == 86400

Procs == {"p1", "p2"}
\* the request slots are interchangeable: a new request takes the first free one
Earlier(p) == IF p = "p2" THEN {"p1"} ELSE {}
Clients == {"c1", "c2"}
\* req.ip of the HTTP requests
Ips == {"c1"}

\* seconds -> clock ticks (a day is 86400 s)
ToTicks(seconds) == (seconds * TicksPerDay) \div 86400
\* new Date().toISOString().slice(0, 10): the UTC calendar day of an instant
DateOf(t) == t \div TicksPerDay

VARIABLES
  now,         \* wall clock, in ticks
  calls,       \* how many requests / direct calls have been started
  kv,          \* the Redis counter store: key -> [val, exp]; absent keys are not in DOMAIN
  redisFaults, \* counter-store failures injected so far
  pc,          \* pc[p]: where request p stands
  h,           \* h[p]: the HTTP request (req / res) of p
  q,           \* q[p]: the frame of the RateLimitService call p is in
  provider,    \* config.provider: which backend FileService wires in
  files,       \* payload objects: publicKey -> [data, contentType]
  metas,       \* metadata objects `<publicKey>.meta`: publicKey -> the JSON document
  nextKey,     \* how many key pairs generateKeys has handed out
  ioFaults,    \* filesystem / bucket failures injected so far
  s,           \* s[p]: the frame of the storage-backend call p is in
  sw,          \* the frame of the sweep (cleanupInactiveFiles) in flight
  uploaded,    \* history: publicKey -> the file a successful uploadFile stored under it
  removed,     \* history: keys some delete, sweep or upload cleanup has unlinked
  deleted,     \* history: keys for which a deleteFile call returned success
  job,         \* the CleanupJob singleton, its timers and its start() calls in flight
  calc,        \* the last call of a parsing helper: its argument and what it returned
  eq           \* the same sequence of backend calls, run on one backend and replayed on the other

Free(p) == pc[p] = "idle" /\ \A r \in Earlier(p) : pc[r] # "idle"

quotaVars == <<kv, redisFaults, q>>
storeVars == <<provider, files, metas, nextKey, ioFaults, s, sw, uploaded, removed, deleted>>
vars == <<now, calls, pc, h, quotaVars, storeVars, job, calc, eq>>

(*------------------------- the Redis counter store ---------------------*)
NoExpiry == -1

\* GET key followed by `parseInt(...) || 0`: an absent key reads as 0
RedisGet(store, key) == IF key \in DOMAIN store THEN store[key].val ELSE 0

\* INCRBY key n: creates the key (without TTL) when absent, keeps the TTL otherwise
RedisIncrBy(store, key, n) ==
  IF key \in DOMAIN store
    THEN [store EXCEPT ![key].val = @ + n]
    ELSE [k \in DOMAIN store \cup {key} |->
            IF k = key THEN [val |-> n, exp |-> NoExpiry] ELSE store[k]]

\* EXPIRE key seconds: sets the TTL of an existing key, does nothing for an absent one
RedisExpire(store, key, seconds, t) ==
  IF key \in DOMAIN store
    THEN [store EXCEPT ![key].exp = t + ToTicks(seconds)]
    ELSE store

\* SETEX key seconds value: overwrites value and TTL
RedisSetEx(store, key, seconds, value, t) ==
  [k \in DOMAIN store \cup {key} |->
     IF k = key THEN [val |-> value, exp |-> t + ToTicks(seconds)] ELSE store[k]]

\* keys whose TTL has run out at time t are gone
RedisExpireKeys(store, t) ==
  [k \in {x \in DOMAIN store : store[x].exp = NoExpiry \/ store[x].exp > t} |-> store[k]]

\* `${direction}:${ip}:${date}`
DailyKey(direction, ip, t) == <<direction, ip, DateOf(t)>>

(*------------------------------ frames ---------------------------------*)
NoKey == <<"none", "none", 0>>
NoErr == [statusCode |-> 0, message |-> "", code |-> ""]
NoDecision ==
  [allowed |-> FALSE, statusCode |-> 0, message |-> "", currentUsage |-> 0,
   limit |-> 0, remaining |-> 0]
NoResp == [status |-> 0, message |-> ""]

\* q[p] while p is in no RateLimitService call.  read/faulted/interfered/pre/expSet
\* record what happened to the call (they are never read by the service).
QIdle ==
  [op |-> "none", site |-> "none", ip |-> "none", size |-> 0, key |-> NoKey,
   current |-> 0, dec |-> NoDecision, err |-> NoErr,
   read |-> FALSE, faulted |-> FALSE, interfered |-> FALSE, pre |-> 0, expSet |-> FALSE]

QCall(op, site, ip, size, key) ==
  [QIdle EXCEPT !.op = op, !.site = site, !.ip = ip, !.size = size, !.key = key]

\* the frames after p changed the value stored under key: every other call
\* in flight on that key has been interleaved with
MarkOthers(frames, p, key) ==
  [r \in Procs |->
     IF r # p /\ frames[r].op # "none" /\ frames[r].key = key
       THEN [frames[r] EXCEPT !.interfered = TRUE]
       ELSE frames[r]]

(*------------------- RateLimitService (part_003) -----------------------*)
\* a faulty variant of the upload test: usage reaching the limit is refused
OverUploadLimit_Inclusive(current, fileSize, limit) == current + fileSize >= limit
\* a faulty variant of the upload test: the size of the file is left out
OverUploadLimit_NoSize(current, fileSize, limit) == current > limit
\* a faulty variant of the upload test: nothing is ever refused
OverUploadLimit_Never(current, fileSize, limit) == FALSE
\* `current + fileSize > uploadLimit`
OverUploadLimit(current, fileSize, limit) == current + fileSize > limit
\* a faulty variant of the download test: usage equal to the limit still passes
OverDownloadLimit_Strict(current, limit) == current > limit
\* `current >= downloadLimit`
OverDownloadLimit(current, limit) == current >= limit
\* `current === 0`: checkUploadLimit's test for the first upload of the day
FirstUpload(current) == current = 0
\* `current === size`: trackDownload's test for the first download of the day
FirstDownload(current, size) == current = size

Max(a, b) == IF a >= b THEN a ELSE b

\* the object checkUploadLimit returns when the limit is exceeded
UploadDenied(current, limit) ==
  [allowed |-> FALSE, statusCode |-> 429, message |-> "Daily upload limit exceeded",
   currentUsage |-> current, limit |-> limit, remaining |-> Max(0, limit - current)]
\* a faulty variant of the admitted decision: it reports the usage read, not the new one
UploadAllowed_Stale(current, fileSize, limit) ==
  [allowed |-> TRUE, statusCode |-> 0, message |-> "",
   currentUsage |-> current, limit |-> limit, remaining |-> limit - current]
\* the object checkUploadLimit returns when the upload is admitted
UploadAllowed(current, fileSize, limit) ==
  [allowed |-> TRUE, statusCode |-> 0, message |-> "",
   currentUsage |-> current + fileSize, limit |-> limit,
   remaining |-> limit - (current + fileSize)]
\* a faulty variant of the catch block: the upload is let through (fail open)
UploadUnavailable_Open ==
  [allowed |-> TRUE, statusCode |-> 503, message |-> "Rate limit service unavailable",
   currentUsage |-> 0, limit |-> 0, remaining |-> 0]
\* the object checkUploadLimit's catch block returns
UploadUnavailable ==
  [allowed |-> FALSE, statusCode |-> 503, message |-> "Rate limit service unavailable",
   currentUsage |-> 0, limit |-> 0, remaining |-> 0]

\* the error checkDownloadLimit throws when the limit is exceeded
DownloadLimitError ==
  [statusCode |-> 429, message |-> "Daily download limit exceeded", code |-> ""]
\* a rejected Redis command, after the catch blocks gave it statusCode 503
RedisError ==
  [statusCode |-> 503, message |-> "Redis connection error", code |-> ""]

\* one counter-store call of p fails (the command is not executed)
RedisFault == redisFaults < MaxRedisFaults /\ redisFaults' = redisFaults + 1

\* checkUploadLimit: `await this.client.get(key)` and the limit test
UL_Get(p) ==
  /\ pc[p] = "ul_get"
  /\ \/ /\ RedisFault
        /\ q' = [q EXCEPT ![p].dec = UploadUnavailable, ![p].faulted = TRUE]
        /\ pc' = [pc EXCEPT ![p] = "ul_ret"]
     \/ /\ UNCHANGED redisFaults
        /\ LET current == RedisGet(kv, q[p].key) IN
           IF OverUploadLimit(current, q[p].size, UploadLimit)
             THEN /\ q' = [q EXCEPT ![p].current = current, ![p].read = TRUE,
                                    ![p].dec = UploadDenied(current, UploadLimit)]
                  /\ pc' = [pc EXCEPT ![p] = "ul_ret"]
             ELSE /\ q' = [q EXCEPT ![p].current = current, ![p].read = TRUE]
                  /\ pc' = [pc EXCEPT ![p] = "ul_incr"]
  /\ UNCHANGED <<calc, eq, job, now, calls, kv, h, storeVars>>

\* checkUploadLimit: `await this.client.incrBy(key, fileSize)`
UL_Incr(p) ==
  /\ pc[p] = "ul_incr"
  /\ \/ /\ RedisFault
        /\ q' = [q EXCEPT ![p].dec = UploadUnavailable, ![p].faulted = TRUE]
        /\ pc' = [pc EXCEPT ![p] = "ul_ret"]
        /\ UNCHANGED kv
     \/ /\ UNCHANGED redisFaults
        /\ kv' = RedisIncrBy(kv, q[p].key, q[p].size)
        /\ LET f == [q[p] EXCEPT !.pre = RedisGet(kv, q[p].key)] IN
           IF FirstUpload(q[p].current)
             THEN /\ q' = MarkOthers([q EXCEPT ![p] = f], p, q[p].key)
                  /\ pc' = [pc EXCEPT ![p] = "ul_expire"]
             ELSE /\ q' = MarkOthers(
                            [q EXCEPT ![p] = [f EXCEPT !.dec =
                               UploadAllowed(q[p].current, q[p].size, UploadLimit)]],
                            p, q[p].key)
                  /\ pc' = [pc EXCEPT ![p] = "ul_ret"]
  /\ UNCHANGED <<calc, eq, job, now, calls, h, storeVars>>

\* checkUploadLimit: `await this.client.expire(key, 86400)`
UL_Expire(p) ==
  /\ pc[p] = "ul_expire"
  /\ \/ /\ RedisFault
        /\ q' = [q EXCEPT ![p].dec = UploadUnavailable, ![p].faulted = TRUE]
        /\ UNCHANGED kv
     \/ /\ UNCHANGED redisFaults
        /\ kv' = RedisExpire(kv, q[p].key, ExpireSeconds, now)
        /\ q' = [q EXCEPT ![p].expSet = TRUE,
                          ![p].dec = UploadAllowed(q[p].current, q[p].size, UploadLimit)]
  /\ pc' = [pc EXCEPT ![p] = "ul_ret"]
  /\ UNCHANGED <<calc, eq, job, now, calls, h, storeVars>>

\* checkDownloadLimit: `await this.client.get(key)`, the limit test and the catch block
DL_Get(p) ==
  /\ pc[p] = "dl_get"
  /\ \/ /\ RedisFault
        /\ q' = [q EXCEPT ![p].err = RedisError, ![p].faulted = TRUE]
     \/ /\ UNCHANGED redisFaults
        /\ LET current == RedisGet(kv, q[p].key) IN
           q' = [q EXCEPT ![p].current = current, ![p].read = TRUE,
                          ![p].err = IF OverDownloadLimit(current, DownloadLimit)
                                       THEN DownloadLimitError ELSE NoErr]
  /\ pc' = [pc EXCEPT ![p] = "dl_ret"]
  /\ UNCHANGED <<calc, eq, job, now, calls, kv, h, storeVars>>

\* trackDownload: `await this.client.incrBy(key, size)`
TD_Incr(p) ==
  /\ pc[p] = "td_incr"
  /\ \/ /\ RedisFault
        /\ q' = [q EXCEPT ![p].err = RedisError, ![p].faulted = TRUE]
        /\ pc' = [pc EXCEPT ![p] = "td_ret"]
        /\ UNCHANGED kv
     \/ /\ UNCHANGED redisFaults
        /\ kv' = RedisIncrBy(kv, q[p].key, q[p].size)
        /\ q' = MarkOthers([q EXCEPT ![p].pre = RedisGet(kv, q[p].key)], p, q[p].key)
        /\ pc' = [pc EXCEPT ![p] = "td_get"]
  /\ UNCHANGED <<calc, eq, job, now, calls, h, storeVars>>

\* trackDownload: `parseInt(await this.client.get(key)) || 0` and the first-download test
TD_Get(p) ==
  /\ pc[p] = "td_get"
  /\ \/ /\ RedisFault
        /\ q' = [q EXCEPT ![p].err = RedisError, ![p].faulted = TRUE]
        /\ pc' = [pc EXCEPT ![p] = "td_ret"]
     \/ /\ UNCHANGED redisFaults
        /\ LET current == RedisGet(kv, q[p].key) IN
           /\ q' = [q EXCEPT ![p].current = current, ![p].read = TRUE]
           /\ pc' = [pc EXCEPT ![p] =
                       IF FirstDownload(current, q[p].size) THEN "td_expire" ELSE "td_ret"]
  /\ UNCHANGED <<calc, eq, job, now, calls, kv, h, storeVars>>

\* trackDownload: `await this.client.expire(key, 86400)`
TD_Expire(p) ==
  /\ pc[p] = "td_expire"
  /\ \/ /\ RedisFault
        /\ q' = [q EXCEPT ![p].err = RedisError, ![p].faulted = TRUE]
        /\ UNCHANGED kv
     \/ /\ UNCHANGED redisFaults
        /\ kv' = RedisExpire(kv, q[p].key, ExpireSeconds, now)
        /\ q' = [q EXCEPT ![p].expSet = TRUE]
  /\ pc' = [pc EXCEPT ![p] = "td_ret"]
  /\ UNCHANGED <<calc, eq, job, now, calls, h, storeVars>>

\* a direct call of checkUploadLimit(ip, fileSize), checkDownloadLimit(ip) or
\* trackDownload(ip, size)
Q_Call(p) ==
  /\ Free(p) /\ calls < MaxDirectCalls /\ calls' = calls + 1
  /\ \E c \in Clients, n \in 1..UploadLimit :
       \/ /\ q' = [q EXCEPT ![p] = QCall("upload", "direct", c, n,
                                         DailyKey("upload", c, now))]
          /\ pc' = [pc EXCEPT ![p] = "ul_get"]
       \/ /\ q' = [q EXCEPT ![p] = QCall("download", "direct", c, 0,
                                         DailyKey("download", c, now))]
          /\ pc' = [pc EXCEPT ![p] = "dl_get"]
       \/ /\ q' = [q EXCEPT ![p] = QCall("track", "direct", c, n,
                                         DailyKey("download", c, now))]
          /\ pc' = [pc EXCEPT ![p] = "td_incr"]
  /\ UNCHANGED <<calc, eq, job, now, kv, redisFaults, h, storeVars>>

\* the call has settled and the caller has its decision (or its error)
Q_Return(p) ==
  /\ pc[p] \in {"ul_ret", "dl_ret", "td_ret"} /\ q[p].site = "direct"
  /\ q' = [q EXCEPT ![p] = QIdle]
  /\ pc' = [pc EXCEPT ![p] = "idle"]
  /\ UNCHANGED <<calc, eq, job, now, calls, kv, redisFaults, h, storeVars>>

(*--------------------------- storage: common ---------------------------*)
Undefined == "undefined"
NoType == "none"
NoPub == <<"none", 0>>

\* generateKeys(): the n-th pair of random keys (16 / 32 random bytes, never repeated)
PublicKey(n) == <<"pub", n>>
PrivateKey(n) == <<"priv", n>>

\* the store with nothing in it
Empty == [x \in {} |-> 0]
\* a faulty variant of the removal of an object: nothing is removed
Del_Keep(f, k) == f
Put(f, k, v) == [x \in DOMAIN f \cup {k} |-> IF x = k THEN v ELSE f[x]]
Del(f, k) == [x \in DOMAIN f \ {k} |-> f[x]]

NoFile ==
  [data |-> <<>>, hasBuffer |-> FALSE, hasStream |-> FALSE,
   originalname |-> Undefined, mimetype |-> Undefined, size |-> 0]
NoMeta ==
  [valid |-> FALSE, privateKey |-> NoPub, originalName |-> Undefined,
   mimeType |-> Undefined, size |-> 0, uploadedAt |-> 0, lastAccessed |-> 0]
NoRes == [data |-> <<>>, mimeType |-> Undefined, originalName |-> Undefined, size |-> 0]

\* a faulty variant of the metadata document: name and type are swapped
Metadata_Swapped(privateKey, file, t) ==
  [valid |-> TRUE, privateKey |-> privateKey, originalName |-> file.mimetype,
   mimeType |-> file.originalname, size |-> file.size, uploadedAt |-> t, lastAccessed |-> t]
\* the metadata document uploadFile writes (JSON.stringify of the metadata object)
Metadata(privateKey, file, t) ==
  [valid |-> TRUE, privateKey |-> privateKey, originalName |-> file.originalname,
   mimeType |-> file.mimetype, size |-> file.size, uploadedAt |-> t, lastAccessed |-> t]

\* `!file.originalname || typeof file.originalname !== "string"`
InvalidOriginalName(file) == file.originalname = Undefined \/ file.originalname = ""

IoError == [statusCode |-> 0, message |-> "EIO: i/o error", code |-> "EIO"]
\* fs: a path that does not exist
Enoent == [statusCode |-> 0, message |-> "ENOENT: no such file or directory", code |-> "ENOENT"]
\* @google-cloud/storage: an object that does not exist
ApiNotFound == [statusCode |-> 0, message |-> "No such object", code |-> "404"]
\* JSON.parse of a document that is no JSON
SyntaxErr == [statusCode |-> 0, message |-> "Unexpected token", code |-> ""]
Err(message) == [statusCode |-> 0, message |-> message, code |-> ""]

\* s[p] while p is in no storage call.  faulted/known record what happened to
\* the call (the backends never read them); failed records, in an upload, that
\* a cleanup deletion failed and, in a download, that the write of the new
\* lastAccessed failed.
SIdle ==
  [op |-> "none", file |-> NoFile, pub |-> NoPub, priv |-> NoPub, ts |-> 0,
   meta |-> NoMeta, todo |-> {}, pending |-> {}, failed |-> FALSE,
   err |-> NoErr, ok |-> FALSE, res |-> NoRes, faulted |-> FALSE, known |-> FALSE,
   afterDelete |-> FALSE]

SwIdle ==
  [pc |-> "idle", todo |-> {}, cutoff |-> 0, cur |-> NoPub, pending |-> {},
   failed |-> FALSE, deletedCount |-> 0, errors |-> {}, gone |-> {},
   faulted |-> FALSE, concurrent |-> FALSE, files0 |-> Empty, metas0 |-> Empty,
   thrown |-> FALSE, hit |-> {}, swallowed |-> FALSE]

\* one filesystem / bucket call fails
IoFault == ioFaults < MaxIoFaults /\ ioFaults' = ioFaults + 1

\* a storage call starting while a sweep is in flight runs concurrently with it
SweepSeesCall == IF sw.pc = "idle" THEN sw ELSE [sw EXCEPT !.concurrent = TRUE]

\* the frame of a call of uploadFile(file): generateKeys() and, on the object
\* store, the metadata object with its timestamps
UploadFrame(file, n, t) ==
  [SIdle EXCEPT !.op = "upload", !.file = file, !.pub = PublicKey(n),
                !.priv = PrivateKey(n), !.ts = t]
\* the frame of a call of downloadFile(publicKey)
DownloadFrame(publicKey) ==
  [SIdle EXCEPT !.op = "download", !.pub = publicKey,
                !.known = (publicKey \in DOMAIN uploaded /\ publicKey \notin removed),
                !.afterDelete = (publicKey \in deleted)]
\* the frame of a call of deleteFile(privateKey)
DeleteFrame(privateKey) == [SIdle EXCEPT !.op = "delete", !.priv = privateKey]

\* the first await of each storage operation, per backend
FirstPc(op) ==
  CASE op = "upload" -> IF provider = "local" THEN "up_open" ELSE "up_meta"
    [] op = "download" -> IF provider = "local" THEN "dn_access_meta" ELSE "dn_read"
    [] OTHER -> "rm_list"

Fail(frame, err) == [frame EXCEPT !.err = err, !.ok = FALSE]
Faulted(frame, err) == [frame EXCEPT !.err = err, !.ok = FALSE, !.faulted = TRUE]

(*------------------- LocalStorage.uploadFile ---------------------------*)
\* fs.createWriteStream(filePath): the file is created (or truncated)
L_UpOpen(p) ==
  /\ pc[p] = "up_open" /\ provider = "local"
  /\ files' = Put(files, s[p].pub, [data |-> <<>>, contentType |-> NoType])
  /\ IF s[p].file.hasBuffer \/ s[p].file.hasStream
       THEN /\ pc' = [pc EXCEPT ![p] = "up_write"]
            /\ UNCHANGED s
       ELSE /\ pc' = [pc EXCEPT ![p] = "up_clean_file"]
            /\ s' = [s EXCEPT ![p] = Fail(@, Err("No valid file data found"))]
  /\ UNCHANGED <<calc, eq, job, now, calls, h, quotaVars, provider, metas, nextKey, ioFaults, sw,
                 uploaded, removed, deleted>>

\* writeStream.write(file.buffer) / pipeline(file.stream, writeStream), then the
\* synchronous head of _saveMetadata: the filename test and the timestamps
L_UpWrite(p) ==
  /\ pc[p] = "up_write" /\ provider = "local"
  /\ \/ /\ IoFault
        /\ s' = [s EXCEPT ![p] = Faulted(@, IoError)]
        /\ pc' = [pc EXCEPT ![p] = "up_clean_file"]
        /\ UNCHANGED files
     \/ /\ UNCHANGED ioFaults
        /\ files' = Put(files, s[p].pub, [data |-> s[p].file.data, contentType |-> NoType])
        /\ IF InvalidOriginalName(s[p].file)
             THEN /\ s' = [s EXCEPT ![p] = Fail(@, Err("Invalid original filename"))]
                  /\ pc' = [pc EXCEPT ![p] = "up_clean_file"]
             ELSE /\ s' = [s EXCEPT ![p].ts = now]
                  /\ pc' = [pc EXCEPT ![p] = "up_meta"]
  /\ UNCHANGED <<calc, eq, job, now, calls, h, quotaVars, provider, metas, nextKey, sw, uploaded, removed, deleted>>

\* _saveMetadata: fsp.writeFile(metaPath, JSON.stringify(metadata)); uploadFile returns
L_UpMeta(p) ==
  /\ pc[p] = "up_meta" /\ provider = "local"
  /\ \/ /\ IoFault
        /\ s' = [s EXCEPT ![p] = Faulted(@, Err("Metadata save failed"))]
        /\ pc' = [pc EXCEPT ![p] = "up_clean_file"]
        /\ UNCHANGED <<metas, uploaded>>
     \/ /\ UNCHANGED ioFaults
        /\ metas' = Put(metas, s[p].pub, Metadata(s[p].priv, s[p].file, s[p].ts))
        /\ uploaded' = Put(uploaded, s[p].pub, s[p].file)
        /\ s' = [s EXCEPT ![p].ok = TRUE]
        /\ pc' = [pc EXCEPT ![p] = "st_ret"]
  /\ UNCHANGED <<calc, eq, job, now, calls, h, quotaVars, provider, files, nextKey, sw, removed, deleted>>

\* _cleanupFailedUpload: `await fsp.unlink(filePath)`; a failure is logged and
\* skips the unlink of the metadata
L_UpCleanFile(p) ==
  /\ pc[p] = "up_clean_file" /\ provider = "local"
  /\ \/ /\ IoFault
        /\ pc' = [pc EXCEPT ![p] = "st_ret"]
        /\ s' = [s EXCEPT ![p].failed = TRUE]
        /\ UNCHANGED <<files, removed>>
     \/ /\ UNCHANGED <<ioFaults, s>>
        /\ IF s[p].pub \in DOMAIN files
             THEN /\ files' = Del(files, s[p].pub)
                  /\ removed' = removed \cup {s[p].pub}
                  /\ pc' = [pc EXCEPT ![p] = "up_clean_meta"]
             ELSE /\ pc' = [pc EXCEPT ![p] = "st_ret"]
                  /\ UNCHANGED <<files, removed>>
  /\ UNCHANGED <<calc, eq, job, now, calls, h, quotaVars, provider, metas, nextKey, sw, uploaded, deleted>>

\* _cleanupFailedUpload: `await fsp.unlink(`${filePath}.meta`).catch(() => {})`
L_UpCleanMeta(p) ==
  /\ pc[p] = "up_clean_meta" /\ provider = "local"
  /\ \/ /\ IoFault
        /\ s' = [s EXCEPT ![p].failed = TRUE]
        /\ UNCHANGED metas
     \/ /\ UNCHANGED <<ioFaults, s>>
        /\ metas' = Del(metas, s[p].pub)
  /\ pc' = [pc EXCEPT ![p] = "st_ret"]
  /\ UNCHANGED <<calc, eq, job, now, calls, h, quotaVars, provider, files, nextKey, sw, uploaded, removed, deleted>>

(*------------------- GoogleCloudStorage.uploadFile ---------------------*)
\* `await metadataFile.save(JSON.stringify(metadata), ...)`
G_UpMeta(p) ==
  /\ pc[p] = "up_meta" /\ provider = "google"
  /\ \/ /\ IoFault
        /\ s' = [s EXCEPT ![p] = Faulted(@, IoError)]
        /\ pc' = [pc EXCEPT ![p] = "up_clean"]
        /\ UNCHANGED metas
     \/ /\ UNCHANGED ioFaults
        /\ metas' = Put(metas, s[p].pub, Metadata(s[p].priv, s[p].file, s[p].ts))
        /\ UNCHANGED s
        /\ pc' = [pc EXCEPT ![p] = "up_write"]
  /\ UNCHANGED <<calc, eq, job, now, calls, h, quotaVars, provider, files, nextKey, sw, uploaded, removed, deleted>>

\* `file.stream.pipe(gcsFile.createWriteStream({metadata: {contentType}}))`;
\* uploadFile returns.  Without file.stream the pipe call throws.
G_UpWrite(p) ==
  /\ pc[p] = "up_write" /\ provider = "google"
  /\ \/ /\ ~s[p].file.hasStream
        /\ s' = [s EXCEPT ![p] = Fail(@, Err("Cannot read properties of undefined"))]
        /\ pc' = [pc EXCEPT ![p] = "up_clean"]
        /\ UNCHANGED <<files, uploaded, ioFaults>>
     \/ /\ s[p].file.hasStream
        /\ IoFault
        /\ s' = [s EXCEPT ![p] = Faulted(@, IoError)]
        /\ pc' = [pc EXCEPT ![p] = "up_clean"]
        /\ UNCHANGED <<files, uploaded>>
     \/ /\ s[p].file.hasStream
        /\ UNCHANGED ioFaults
        /\ files' = Put(files, s[p].pub,
                        [data |-> s[p].file.data, contentType |-> s[p].file.mimetype])
        /\ uploaded' = Put(uploaded, s[p].pub, s[p].file)
        /\ s' = [s EXCEPT ![p].ok = TRUE]
        /\ pc' = [pc EXCEPT ![p] = "st_ret"]
  /\ UNCHANGED <<calc, eq, job, now, calls, h, quotaVars, provider, metas, nextKey, sw, removed, deleted>>

\* the catch block: both deletes are attempted, their failures swallowed
G_UpClean(p) ==
  /\ pc[p] = "up_clean" /\ provider = "google"
  /\ \/ /\ IoFault
        /\ s' = [s EXCEPT ![p].failed = TRUE]
        /\ \/ files' = Del(files, s[p].pub) /\ UNCHANGED metas
           \/ metas' = Del(metas, s[p].pub) /\ UNCHANGED files
     \/ /\ UNCHANGED <<ioFaults, s>>
        /\ files' = Del(files, s[p].pub)
        /\ metas' = Del(metas, s[p].pub)
  /\ removed' = removed \cup {s[p].pub}
  /\ pc' = [pc EXCEPT ![p] = "st_ret"]
  /\ UNCHANGED <<calc, eq, job, now, calls, h, quotaVars, provider, nextKey, sw, uploaded, deleted>>

(*------------------- LocalStorage.downloadFile -------------------------*)
\* the catch block: ENOENT becomes `File not found`, statusCode 404
L_DownloadError(err) ==
  IF err.code = "ENOENT"
    THEN [err EXCEPT !.message = "File not found", !.statusCode = 404]
    ELSE err

\* `await fsp.access(metaPath, fs.constants.R_OK)`
L_DnAccessMeta(p) ==
  /\ pc[p] = "dn_access_meta" /\ provider = "local"
  /\ \/ /\ IoFault
        /\ s' = [s EXCEPT ![p] = Faulted(@, L_DownloadError(IoError))]
        /\ pc' = [pc EXCEPT ![p] = "st_ret"]
     \/ /\ UNCHANGED ioFaults
        /\ IF s[p].pub \in DOMAIN metas
             THEN /\ pc' = [pc EXCEPT ![p] = "dn_access_file"]
                  /\ UNCHANGED s
             ELSE /\ s' = [s EXCEPT ![p] = Fail(@, L_DownloadError(Enoent))]
                  /\ pc' = [pc EXCEPT ![p] = "st_ret"]
  /\ UNCHANGED <<calc, eq, job, now, calls, h, quotaVars, provider, files, metas, nextKey, sw,
                 uploaded, removed, deleted>>

\* `await fsp.access(filePath, fs.constants.R_OK)`
L_DnAccessFile(p) ==
  /\ pc[p] = "dn_access_file" /\ provider = "local"
  /\ \/ /\ IoFault
        /\ s' = [s EXCEPT ![p] = Faulted(@, L_DownloadError(IoError))]
        /\ pc' = [pc EXCEPT ![p] = "st_ret"]
     \/ /\ UNCHANGED ioFaults
        /\ IF s[p].pub \in DOMAIN files
             THEN /\ pc' = [pc EXCEPT ![p] = "dn_read"]
                  /\ UNCHANGED s
             ELSE /\ s' = [s EXCEPT ![p] = Fail(@, L_DownloadError(Enoent))]
                  /\ pc' = [pc EXCEPT ![p] = "st_ret"]
  /\ UNCHANGED <<calc, eq, job, now, calls, h, quotaVars, provider, files, metas, nextKey, sw,
                 uploaded, removed, deleted>>

\* `JSON.parse(await fsp.readFile(metaPath, "utf8"))` and
\* `metaData.lastAccessed = new Date().toISOString()`
L_DnRead(p) ==
  /\ pc[p] = "dn_read" /\ provider = "local"
  /\ \/ /\ IoFault
        /\ s' = [s EXCEPT ![p] = Faulted(@, L_DownloadError(IoError))]
        /\ pc' = [pc EXCEPT ![p] = "st_ret"]
     \/ /\ UNCHANGED ioFaults
        /\ IF s[p].pub \notin DOMAIN metas
             THEN /\ s' = [s EXCEPT ![p] = Fail(@, L_DownloadError(Enoent))]
                  /\ pc' = [pc EXCEPT ![p] = "st_ret"]
             ELSE IF ~metas[s[p].pub].valid
               THEN /\ s' = [s EXCEPT ![p] = Fail(@, L_DownloadError(SyntaxErr))]
                    /\ pc' = [pc EXCEPT ![p] = "st_ret"]
               ELSE /\ s' = [s EXCEPT ![p].meta =
                                [metas[s[p].pub] EXCEPT !.lastAccessed = now]]
                    /\ pc' = [pc EXCEPT ![p] = "dn_touch"]
  /\ UNCHANGED <<calc, eq, job, now, calls, h, quotaVars, provider, files, metas, nextKey, sw,
                 uploaded, removed, deleted>>

\* `await fsp.writeFile(metaPath, JSON.stringify(metaData))`
L_DnTouch(p) ==
  /\ pc[p] = "dn_touch" /\ provider = "local"
  /\ \/ /\ IoFault
        /\ s' = [s EXCEPT ![p] = [Faulted(@, L_DownloadError(IoError)) EXCEPT !.failed = TRUE]]
        /\ pc' = [pc EXCEPT ![p] = "st_ret"]
        /\ UNCHANGED metas
     \/ /\ UNCHANGED <<ioFaults, s>>
        /\ metas' = Put(metas, s[p].pub, s[p].meta)
        /\ pc' = [pc EXCEPT ![p] = "dn_stat"]
  /\ UNCHANGED <<calc, eq, job, now, calls, h, quotaVars, provider, files, nextKey, sw, uploaded, removed, deleted>>

\* `await fsp.stat(filePath)` and the returned object; the stream reads the file
L_DnStat(p) ==
  /\ pc[p] = "dn_stat" /\ provider = "local"
  /\ \/ /\ IoFault
        /\ s' = [s EXCEPT ![p] = Faulted(@, L_DownloadError(IoError))]
     \/ /\ UNCHANGED ioFaults
        /\ IF s[p].pub \in DOMAIN files
             THEN s' = [s EXCEPT ![p].ok = TRUE,
                                 ![p].res = [data |-> files[s[p].pub].data,
                                             mimeType |-> s[p].meta.mimeType,
                                             originalName |-> s[p].meta.originalName,
                                             size |-> Len(files[s[p].pub].data)]]
             ELSE s' = [s EXCEPT ![p] = Fail(@, L_DownloadError(Enoent))]
  /\ pc' = [pc EXCEPT ![p] = "st_ret"]
  /\ UNCHANGED <<calc, eq, job, now, calls, h, quotaVars, provider, files, metas, nextKey, sw,
                 uploaded, removed, deleted>>

(*------------------- GoogleCloudStorage.downloadFile -------------------*)
\* `await metadataFile.download()`, JSON.parse and the new lastAccessed
G_DnRead(p) ==
  /\ pc[p] = "dn_read" /\ provider = "google"
  /\ \/ /\ IoFault
        /\ s' = [s EXCEPT ![p] = Faulted(@, IoError)]
        /\ pc' = [pc EXCEPT ![p] = "st_ret"]
     \/ /\ UNCHANGED ioFaults
        /\ IF s[p].pub \notin DOMAIN metas
             THEN /\ s' = [s EXCEPT ![p] = Fail(@, ApiNotFound)]
                  /\ pc' = [pc EXCEPT ![p] = "st_ret"]
             ELSE IF ~metas[s[p].pub].valid
               THEN /\ s' = [s EXCEPT ![p] = Fail(@, SyntaxErr)]
                    /\ pc' = [pc EXCEPT ![p] = "st_ret"]
               ELSE /\ s' = [s EXCEPT ![p].meta =
                                [metas[s[p].pub] EXCEPT !.lastAccessed = now]]
                    /\ pc' = [pc EXCEPT ![p] = "dn_touch"]
  /\ UNCHANGED <<calc, eq, job, now, calls, h, quotaVars, provider, files, metas, nextKey, sw,
                 uploaded, removed, deleted>>

\* `await metadataFile.save(JSON.stringify(fileInfo), ...)`
G_DnTouch(p) ==
  /\ pc[p] = "dn_touch" /\ provider = "google"
  /\ \/ /\ IoFault
        /\ s' = [s EXCEPT ![p] = [Faulted(@, IoError) EXCEPT !.failed = TRUE]]
        /\ pc' = [pc EXCEPT ![p] = "st_ret"]
        /\ UNCHANGED metas
     \/ /\ UNCHANGED <<ioFaults, s>>
        /\ metas' = Put(metas, s[p].pub, s[p].meta)
        /\ pc' = [pc EXCEPT ![p] = "dn_stat"]
  /\ UNCHANGED <<calc, eq, job, now, calls, h, quotaVars, provider, files, nextKey, sw, uploaded, removed, deleted>>

\* `gcsFile.createReadStream()`, `await gcsFile.getMetadata()` and the returned object
G_DnStat(p) ==
  /\ pc[p] = "dn_stat" /\ provider = "google"
  /\ \/ /\ IoFault
        /\ s' = [s EXCEPT ![p] = Faulted(@, IoError)]
     \/ /\ UNCHANGED ioFaults
        /\ IF s[p].pub \in DOMAIN files
             THEN s' = [s EXCEPT ![p].ok = TRUE,
                                 ![p].res = [data |-> files[s[p].pub].data,
                                             mimeType |-> files[s[p].pub].contentType,
                                             originalName |-> s[p].meta.originalName,
                                             size |-> s[p].meta.size]]
             ELSE s' = [s EXCEPT ![p] = Fail(@, ApiNotFound)]
  /\ pc' = [pc EXCEPT ![p] = "st_ret"]
  /\ UNCHANGED <<calc, eq, job, now, calls, h, quotaVars, provider, files, metas, nextKey, sw,
                 uploaded, removed, deleted>>

(*------------------- deleteFile (both backends) ------------------------*)
\* LocalStorage.deleteFile's catch block: `if (!err.statusCode) err.statusCode = 500`
L_DeleteError(err) == IF err.statusCode = 0 THEN [err EXCEPT !.statusCode = 500] ELSE err
\* GoogleCloudStorage.deleteFile's catch block rethrows the error as it is
G_DeleteError(err) == err
\* what LocalStorage.deleteFile throws when no metadata matches the key
L_NoMatch == [statusCode |-> 500, message |-> "Invalid private key", code |-> ""]
\* what GoogleCloudStorage.deleteFile throws when no metadata matches the key
G_NoMatch == Err("File not found")
\* per backend: the catch block, the unknown-key error, the missing-object error
DeleteError(prov, err) == IF prov = "local" THEN L_DeleteError(err) ELSE G_DeleteError(err)
NoMatch(prov) == IF prov = "local" THEN L_NoMatch ELSE G_NoMatch
Missing(prov) == IF prov = "local" THEN Enoent ELSE ApiNotFound

\* a faulty variant of the key comparison: every metadata record matches
KeyMatches_Any(metaData, privateKey) == TRUE
\* `metaData.privateKey === privateKey`
KeyMatches(metaData, privateKey) == metaData.privateKey = privateKey

\* the listing of the metadata objects (readdir / bucket.getFiles, filtered on `.meta`)
RmList(p, prov) ==
  /\ pc[p] = "rm_list"
  /\ \/ /\ IoFault
        /\ s' = [s EXCEPT ![p] = Faulted(@, DeleteError(prov, IoError))]
        /\ pc' = [pc EXCEPT ![p] = "st_ret"]
     \/ /\ UNCHANGED ioFaults
        /\ IF DOMAIN metas = {}
             THEN /\ s' = [s EXCEPT ![p] = Fail(@, DeleteError(prov, NoMatch(prov)))]
                  /\ pc' = [pc EXCEPT ![p] = "st_ret"]
             ELSE /\ s' = [s EXCEPT ![p].todo = DOMAIN metas]
                  /\ pc' = [pc EXCEPT ![p] = "rm_scan"]
  /\ UNCHANGED <<calc, eq, job, now, calls, h, quotaVars, provider, files, metas, nextKey, sw,
                 uploaded, removed, deleted>>

\* one turn of the scan loop: read and parse one metadata object, compare its
\* privateKey; after the last one the key is unknown
RmScan(p, prov) ==
  /\ pc[p] = "rm_scan"
  /\ \/ /\ IoFault
        /\ s' = [s EXCEPT ![p] = Faulted(@, DeleteError(prov, IoError))]
        /\ pc' = [pc EXCEPT ![p] = "st_ret"]
     \/ /\ UNCHANGED ioFaults
        /\ \E k \in s[p].todo :
             IF k \notin DOMAIN metas
               THEN /\ s' = [s EXCEPT ![p] = Fail(@, DeleteError(prov, Missing(prov)))]
                    /\ pc' = [pc EXCEPT ![p] = "st_ret"]
             ELSE IF ~metas[k].valid
               THEN /\ s' = [s EXCEPT ![p] = Fail(@, DeleteError(prov, SyntaxErr))]
                    /\ pc' = [pc EXCEPT ![p] = "st_ret"]
             ELSE IF KeyMatches(metas[k], s[p].priv)
               THEN /\ s' = [s EXCEPT ![p].pub = k, ![p].pending = {"file", "meta"}]
                    /\ pc' = [pc EXCEPT ![p] = "rm_unlink"]
             ELSE IF s[p].todo = {k}
               THEN /\ s' = [s EXCEPT ![p] = Fail(@, DeleteError(prov, NoMatch(prov)))]
                    /\ pc' = [pc EXCEPT ![p] = "st_ret"]
             ELSE /\ s' = [s EXCEPT ![p].todo = @ \ {k}]
                  /\ UNCHANGED pc
  /\ UNCHANGED <<calc, eq, job, now, calls, h, quotaVars, provider, files, metas, nextKey, sw,
                 uploaded, removed, deleted>>

\* `Promise.all([unlink(filePath), unlink(metaPath)])`: the two removals run in
\* either order; the call fails when one of them fails and succeeds otherwise
RmUnlink(p, prov) ==
  /\ pc[p] = "rm_unlink"
  /\ \E op \in s[p].pending :
       LET k == s[p].pub
           last == s[p].pending = {op}
           present == IF op = "file" THEN k \in DOMAIN files ELSE k \in DOMAIN metas
           done(fr) == [fr EXCEPT !.pending = @ \ {op}, !.ok = last /\ ~fr.failed]
           bad(fr, e, flt) ==
             [fr EXCEPT !.pending = @ \ {op}, !.failed = TRUE, !.ok = FALSE,
                        !.faulted = @ \/ flt,
                        !.err = IF fr.failed THEN @ ELSE DeleteError(prov, e)]
       IN
       /\ pc' = [pc EXCEPT ![p] = IF last THEN "st_ret" ELSE "rm_unlink"]
       /\ \/ /\ IoFault
             /\ s' = [s EXCEPT ![p] = bad(@, IoError, TRUE)]
             /\ UNCHANGED <<files, metas, removed, deleted>>
          \/ /\ UNCHANGED ioFaults
             /\ ~present
             /\ s' = [s EXCEPT ![p] = bad(@, Missing(prov), FALSE)]
             /\ UNCHANGED <<files, metas, removed, deleted>>
          \/ /\ UNCHANGED ioFaults
             /\ present
             /\ IF op = "file"
                  THEN files' = Del(files, k) /\ UNCHANGED metas
                  ELSE metas' = Del(metas, k) /\ UNCHANGED files
             /\ removed' = removed \cup {k}
             /\ s' = [s EXCEPT ![p] = done(@)]
             /\ deleted' = IF last /\ ~s[p].failed THEN deleted \cup {k} ELSE deleted
  /\ UNCHANGED <<calc, eq, job, now, calls, h, quotaVars, provider, nextKey, sw, uploaded>>

L_RmList(p) == provider = "local" /\ RmList(p, "local")
L_RmScan(p) == provider = "local" /\ RmScan(p, "local")
L_RmUnlink(p) == provider = "local" /\ RmUnlink(p, "local")
G_RmList(p) == provider = "google" /\ RmList(p, "google")
G_RmScan(p) == provider = "google" /\ RmScan(p, "google")
G_RmUnlink(p) == provider = "google" /\ RmUnlink(p, "google")

(*------------------- cleanupInactiveFiles (both backends) --------------*)
\* `new Date(Date.now() - this.parseInactivityPeriod(inactivityPeriod))`
Cutoff(t) == t - InactivityTicks
\* a faulty variant of the eviction test: an object exactly at the cutoff is evicted
Inactive_Inclusive(lastAccessed, cutoff) == lastAccessed <= cutoff
\* `lastAccessed < cutoff`
Inactive(lastAccessed, cutoff) == lastAccessed < cutoff

\* a storage call is in flight
StorageBusy == \E p \in Procs : s[p].op # "none" /\ pc[p] \notin {"st_ret", "piping"}

\* the frame of a call of cleanupInactiveFiles(inactivityPeriod)
SweepFrame ==
  [SwIdle EXCEPT !.pc = "sw_list", !.concurrent = StorageBusy,
                 !.files0 = files, !.metas0 = metas]

\* the call of cleanupInactiveFiles: nothing is awaited yet
SweepBegin ==
  /\ sw.pc = "idle" /\ calls < MaxCalls /\ calls' = calls + 1
  /\ sw' = SweepFrame
  /\ UNCHANGED <<calc, eq, job, now, pc, h, quotaVars, provider, files, metas, nextKey, ioFaults, s,
                 uploaded, removed, deleted>>

\* the listing (readdir / bucket.getFiles) and the cutoff computed right after
\* it; a failed listing is not caught: the whole call rejects
SwList ==
  /\ sw.pc = "sw_list"
  /\ \/ /\ IoFault
        /\ sw' = [sw EXCEPT !.pc = "sw_ret", !.thrown = TRUE, !.faulted = TRUE]
     \/ /\ UNCHANGED ioFaults
        /\ sw' = [sw EXCEPT !.pc = IF DOMAIN metas = {} THEN "sw_ret" ELSE "sw_scan",
                            !.todo = DOMAIN metas, !.cutoff = Cutoff(now)]
  /\ UNCHANGED <<calc, eq, job, now, calls, pc, h, quotaVars, provider, files, metas, nextKey, s,
                 uploaded, removed, deleted>>

\* a faulty variant of the loop's catch block: the first error ends the sweep
AfterError_Abort(rest) == "sw_ret"
\* the loop's catch block: the error is pushed to errors and the loop goes on
\* with the next metadata object
AfterError(rest) == IF rest = {} THEN "sw_ret" ELSE "sw_scan"

\* one turn of the loop up to the decision: read and parse the metadata object
\* and compare lastAccessed with the cutoff; a failure is recorded in errors and
\* the loop goes on
SwScan ==
  /\ sw.pc = "sw_scan"
  /\ \E k \in sw.todo :
       LET rest == sw.todo \ {k}
           after == IF rest = {} THEN "sw_ret" ELSE "sw_scan"
       IN
       \/ /\ IoFault
          /\ sw' = [sw EXCEPT !.todo = rest, !.pc = AfterError(rest), !.faulted = TRUE,
                              !.hit = @ \cup {k}, !.errors = @ \cup {k}]
       \/ /\ UNCHANGED ioFaults
          /\ IF k \notin DOMAIN metas \/ ~metas[k].valid
               THEN sw' = [sw EXCEPT !.todo = rest, !.pc = AfterError(rest),
                                     !.errors = @ \cup {k}]
             ELSE IF Inactive(metas[k].lastAccessed, sw.cutoff)
               THEN sw' = [sw EXCEPT !.todo = rest, !.pc = "sw_del", !.cur = k,
                                     !.pending = {"file", "meta"}, !.failed = FALSE]
             ELSE sw' = [sw EXCEPT !.todo = rest, !.pc = after]
  /\ UNCHANGED <<calc, eq, job, now, calls, pc, h, quotaVars, provider, files, metas, nextKey, s,
                 uploaded, removed, deleted>>

\* the removal of one inactive object: payload and metadata in either order.
\* swallow = TRUE is LocalStorage._deleteByPublicKey (`.catch(() => {})` on
\* each unlink, then deletedCount++), swallow = FALSE is the object store's
\* Promise.all of the two delete() calls, whose failure is caught by the loop
SwDel(swallow) ==
  /\ sw.pc = "sw_del"
  /\ \E op \in sw.pending :
       LET k == sw.cur
           last == sw.pending = {op}
           present == IF op = "file" THEN k \in DOMAIN files ELSE k \in DOMAIN metas
           after == IF ~last THEN "sw_del" ELSE IF sw.todo = {} THEN "sw_ret" ELSE "sw_scan"
           step(fr, bad, flt) ==
             LET failed == (fr.failed \/ bad) /\ ~swallow IN
             [fr EXCEPT !.pending = @ \ {op}, !.pc = after, !.failed = failed,
                        !.faulted = @ \/ flt,
                        !.hit = IF flt THEN @ \cup {k} ELSE @,
                        !.swallowed = @ \/ (flt /\ swallow),
                        !.deletedCount = IF last /\ ~failed THEN @ + 1 ELSE @,
                        !.gone = IF last /\ ~failed THEN @ \cup {k} ELSE @,
                        !.errors = IF last /\ failed THEN @ \cup {k} ELSE @]
       IN
       \/ /\ IoFault
          /\ sw' = step(sw, TRUE, TRUE)
          /\ UNCHANGED <<files, metas, removed>>
       \/ /\ UNCHANGED ioFaults
          /\ ~present
          /\ sw' = step(sw, TRUE, FALSE)
          /\ UNCHANGED <<files, metas, removed>>
       \/ /\ UNCHANGED ioFaults
          /\ present
          /\ IF op = "file"
               THEN files' = Del(files, k) /\ UNCHANGED metas
               ELSE metas' = Del(metas, k) /\ UNCHANGED files
          /\ removed' = removed \cup {k}
          /\ sw' = step(sw, FALSE, FALSE)
  /\ UNCHANGED <<calc, eq, job, now, calls, pc, h, quotaVars, provider, nextKey, s, uploaded, deleted>>

L_SwDel == provider = "local" /\ SwDel(TRUE)
G_SwDel == provider = "google" /\ SwDel(FALSE)

\* the call returns { deletedCount, errorCount, errors } or rejects
SweepReturn ==
  /\ sw.pc = "sw_ret"
  /\ sw' = SwIdle
  /\ UNCHANGED <<calc, eq, job, now, calls, pc, h, quotaVars, provider, files, metas, nextKey, ioFaults, s,
                 uploaded, removed, deleted>>

\* a metadata document damaged on the medium: what is stored under
\* `<publicKey>.meta` is no JSON any more, so JSON.parse of it throws
Corrupt ==
  /\ IoFault
  /\ \E k \in DOMAIN metas :
       /\ metas[k].valid
       /\ metas' = [metas EXCEPT ![k] = [NoMeta EXCEPT !.valid = FALSE]]
  /\ sw' = SweepSeesCall
  /\ UNCHANGED <<calc, eq, job, now, calls, pc, h, quotaVars, provider, files, nextKey, s,
                 uploaded, removed, deleted>>

(*------------------- CleanupJob: the eviction scheduler -----------------*)
\* the calls of start() one behaviour makes; the timer a call arms is named after it
StartCalls == {"s1", "s2"}
NoTimer == "null"

\* the job after its constructor (interval = null, isRunning = false), with
\* the event loop's armed timers and the start() calls in flight.  inflight,
\* owner, stopped and ev record what happened (the job never reads them).
JobInit ==
  [interval |-> NoTimer, isRunning |-> FALSE, timers |-> {},
   start |-> [c \in StartCalls |-> "new"],
   inflight |-> 0, owner |-> "none", stopped |-> FALSE, ev |-> "none"]

\* a faulty variant of the overlap guard: the flag is never seen set
Running_Never(j) == FALSE
\* `if (this.isRunning)` in runCleanup / `if (!this.isRunning)` in the timer callback
Running(j) == j.isRunning

\* a faulty variant of runCleanup without its finally block: the flag is
\* reset on the success path only
AfterCleanup_NoFinally(threw) == threw
\* `finally { this.isRunning = false; }`: the flag after the cleanup call
\* settled, whether it returned or threw
AfterCleanup(threw) == FALSE

\* `if (this.interval) clearInterval(this.interval)`: the timer the interval
\* field refers to is disarmed (the field keeps its value)
ClearInterval(j) == j.timers \ {j.interval}

\* promise continuations run before the event loop takes the next timer or
\* I/O event: a start() call about to resume, a settled cleanup call
MicrotaskPending ==
  sw.pc = "sw_ret" \/ \E c \in StartCalls : job.start[c] = "micro"

\* runCleanup() up to its first await, called by `who`: with the flag set it
\* logs and returns; otherwise it sets the flag and calls
\* fileService.cleanupInactiveFiles, which calls the backend
RunCleanup(j, who, skipEv) ==
  IF Running(j)
    THEN /\ job' = [j EXCEPT !.ev = skipEv]
         /\ UNCHANGED sw
    ELSE /\ job' = [j EXCEPT !.isRunning = TRUE, !.inflight = @ + 1, !.owner = who,
                             !.ev = "sweep"]
         /\ sw' = SweepFrame

\* start(): the old timer is cleared, then `await this.runCleanup()`; a call
\* that finds a cleanup in progress resumes in the next microtask, the other
\* one when its sweep has settled
JobStart(c) ==
  /\ job.start[c] = "new"
  /\ \A d \in StartCalls : (d = "s1" /\ c = "s2") => job.start[d] # "new"
  /\ LET j == [job EXCEPT !.timers = ClearInterval(job), !.stopped = FALSE,
                          !.start[c] = IF Running(job) THEN "micro" ELSE "awaiting"]
     IN RunCleanup(j, c, "start-skip")
  /\ UNCHANGED <<calc, eq, now, calls, pc, h, quotaVars, provider, files, metas, nextKey, ioFaults, s,
                 uploaded, removed, deleted>>

\* start() after its await: `this.interval = setInterval(...)`
JobArm(c) ==
  /\ job.start[c] = "micro"
  /\ job' = [job EXCEPT !.start[c] = "done", !.interval = c, !.timers = @ \cup {c},
                        !.ev = "arm"]
  /\ UNCHANGED <<calc, eq, now, calls, pc, h, quotaVars, storeVars>>

\* an armed timer fires: the callback runs runCleanup unless the flag is set
JobTimer ==
  /\ job.timers # {} /\ ~MicrotaskPending
  /\ IF Running(job)
       THEN job' = [job EXCEPT !.ev = "tick-skip"] /\ UNCHANGED sw
       ELSE RunCleanup(job, "timer", "tick-skip")
  /\ UNCHANGED <<calc, eq, now, calls, pc, h, quotaVars, provider, files, metas, nextKey, ioFaults, s,
                 uploaded, removed, deleted>>

\* runCleanup() called directly
JobRunCleanup ==
  /\ RunCleanup(job, "direct", "run-skip")
  /\ UNCHANGED <<calc, eq, now, calls, pc, h, quotaVars, provider, files, metas, nextKey, ioFaults, s,
                 uploaded, removed, deleted>>

\* the sweep's listing, taken from the event loop as an I/O event
JobSwList == ~(\E c \in StartCalls : job.start[c] = "micro") /\ SwList

\* runCleanup() after its await: the result (or the error) is logged, the
\* finally block resets the flag, and the start() call that awaited it resumes
JobCleanupDone ==
  /\ sw.pc = "sw_ret" /\ job.inflight > 0
  /\ sw' = SwIdle
  /\ job' = [job EXCEPT !.isRunning = AfterCleanup(sw.thrown), !.inflight = @ - 1,
                        !.owner = "none",
                        !.start = [c \in StartCalls |->
                                     IF c = job.owner /\ @[c] = "awaiting" THEN "micro" ELSE @[c]],
                        !.ev = IF sw.thrown THEN "failed" ELSE "completed"]
  /\ UNCHANGED <<calc, eq, now, calls, pc, h, quotaVars, provider, files, metas, nextKey, ioFaults, s,
                 uploaded, removed, deleted>>

\* stop(): `if (this.interval) { clearInterval(this.interval); this.interval = null; }`
JobStop ==
  /\ job' = [job EXCEPT !.timers = ClearInterval(job), !.interval = NoTimer,
                        !.stopped = TRUE, !.ev = "stop"]
  /\ UNCHANGED <<calc, eq, now, calls, pc, h, quotaVars, storeVars>>

(*------------------- the clock and key expiry --------------------------*)
\* time passes by one tick; Redis drops the keys whose TTL ran out, which every
\* call in flight on such a key experiences as a change of the counter
Tick ==
  /\ now < MaxTicks
  /\ now' = now + 1
  /\ kv' = RedisExpireKeys(kv, now + 1)
  /\ q' = [r \in Procs |->
             IF q[r].op # "none" /\ q[r].key \in DOMAIN kv /\ q[r].key \notin DOMAIN kv'
               THEN [q[r] EXCEPT !.interfered = TRUE] ELSE q[r]]
  /\ UNCHANGED <<calc, eq, job, calls, pc, h, redisFaults, storeVars>>

(*------------------- direct calls of the backend operations ------------*)
\* what a caller may hand to uploadFile
Payloads == {<<1>>, <<1, 2>>}
NameOf(data) == IF Len(data) = 1 THEN "a.txt" ELSE "b.pdf"
TypeOf(data) == IF Len(data) = 1 THEN "text/plain" ELSE "application/pdf"
\* the file object multer's memoryStorage hands over, after the controller
\* added `req.file.stream = Readable.from(req.file.buffer)`
MulterFile(data) ==
  [data |-> data, hasBuffer |-> TRUE, hasStream |-> TRUE,
   originalname |-> NameOf(data), mimetype |-> TypeOf(data), size |-> Len(data)]
Files == {MulterFile(d) : d \in Payloads}
\* a file object without a name, as a direct caller can pass it
Unnamed == [MulterFile(<<1>>) EXCEPT !.originalname = Undefined]
ApiFiles == Files \cup {Unnamed}

\* generateKeys draws 16 / 32 random bytes: a caller can present the n-th key
\* pair only once the uploadFile call that generated it has settled; besides
\* it can present a key that was never generated (pair 0)
Presentable ==
  {0} \cup {n \in 1..nextKey :
              \A r \in Procs :
                (s[r].op = "upload" /\ s[r].pub = PublicKey(n)) => pc[r] = "st_ret"}

HIdle ==
  [kind |-> "none", ip |-> "none", file |-> NoFile, key |-> NoPub, resp |-> NoResp,
   dec |-> NoDecision, mwErr |-> NoErr, ctlErr |-> NoErr, backend |-> FALSE]

\* FileService.uploadFile(file): forwarded to the backend
ApiUpload(p) ==
  /\ Free(p) /\ calls < MaxCalls /\ calls' = calls + 1 /\ nextKey < MaxKeys
  /\ \E f \in ApiFiles :
       /\ s' = [s EXCEPT ![p] = UploadFrame(f, nextKey + 1, now)]
       /\ h' = [h EXCEPT ![p] = [HIdle EXCEPT !.kind = "api", !.file = f, !.backend = TRUE]]
  /\ nextKey' = nextKey + 1
  /\ pc' = [pc EXCEPT ![p] = FirstPc("upload")]
  /\ sw' = SweepSeesCall
  /\ UNCHANGED <<calc, eq, job, now, quotaVars, provider, files, metas, ioFaults, uploaded, removed, deleted>>

\* FileService.downloadFile(publicKey)
ApiDownload(p) ==
  /\ Free(p) /\ calls < MaxCalls /\ calls' = calls + 1
  /\ \E n \in Presentable :
       /\ s' = [s EXCEPT ![p] = DownloadFrame(PublicKey(n))]
       /\ h' = [h EXCEPT ![p] = [HIdle EXCEPT !.kind = "api", !.key = PublicKey(n),
                                              !.backend = TRUE]]
  /\ pc' = [pc EXCEPT ![p] = FirstPc("download")]
  /\ sw' = SweepSeesCall
  /\ UNCHANGED <<calc, eq, job, now, quotaVars, provider, files, metas, nextKey, ioFaults,
                 uploaded, removed, deleted>>

\* what a caller may hand to deleteFile: a private key that was issued, the
\* public key of an object, or a string that is no key of any object
DeleteArgs ==
  {PrivateKey(n) : n \in Presentable} \cup {PublicKey(n) : n \in Presentable \ {0}}

\* FileService.deleteFile(privateKey)
ApiDelete(p) ==
  /\ Free(p) /\ calls < MaxCalls /\ calls' = calls + 1
  /\ \E x \in DeleteArgs :
       /\ s' = [s EXCEPT ![p] = DeleteFrame(x)]
       /\ h' = [h EXCEPT ![p] = [HIdle EXCEPT !.kind = "api", !.key = x,
                                              !.backend = TRUE]]
  /\ pc' = [pc EXCEPT ![p] = FirstPc("delete")]
  /\ sw' = SweepSeesCall
  /\ UNCHANGED <<calc, eq, job, now, quotaVars, provider, files, metas, nextKey, ioFaults,
                 uploaded, removed, deleted>>

\* the backend call has settled and the caller has its result
ApiReturn(p) ==
  /\ pc[p] = "st_ret" /\ h[p].kind = "api"
  /\ pc' = [pc EXCEPT ![p] = "idle"]
  /\ s' = [s EXCEPT ![p] = SIdle]
  /\ h' = [h EXCEPT ![p] = HIdle]
  /\ UNCHANGED <<calc, eq, job, now, calls, quotaVars, provider, files, metas, nextKey, ioFaults, sw,
                 uploaded, removed, deleted>>

(*------------------- the HTTP request flows ----------------------------*)
\* `/^[a-f0-9]{32}$/.test(publicKey)`: generateKeys makes public keys of 16
\* random bytes (32 hex digits) and private keys of 32 bytes (64 hex digits)
BadKey == <<"bad", 0>>
WellFormedPublicKey(k) == k[1] = "pub"
\* the :publicKey / :privateKey parameters clients send
PublicKeyParams == {PublicKey(n) : n \in Presentable} \cup {BadKey}
PrivateKeyParams == {PrivateKey(n) : n \in Presentable}

\* the error middleware: which response an error passed to next(err) becomes
ErrorHandler(err) ==
  IF err.code = "ENOENT" THEN [status |-> 404, message |-> "File not found"]
  ELSE IF err.message \in {"Daily download limit exceeded", "Daily upload limit exceeded"}
    THEN [status |-> 429, message |-> err.message]
  ELSE IF err.statusCode = 503 THEN [status |-> 503, message |-> err.message]
  ELSE IF err.message = "Invalid private key"
    THEN [status |-> 500, message |-> "Invalid private key"]
  ELSE IF err.statusCode = 0 \/ err.statusCode = 500
    THEN [status |-> 500, message |-> "Internal Server Error"]
  ELSE [status |-> err.statusCode, message |-> err.message]

\* uploads that have been received and have not drawn their key pair yet
UploadsWaiting == Cardinality({r \in Procs : h[r].kind = "upload" /\ ~h[r].backend
                                              /\ pc[r] # "done"})

\* POST /files: uploadRateLimit sees no req.file yet (multer runs after it) and
\* calls next(); multer parses the body; FileController.uploadFile answers 400
\* without a file and otherwise calls checkUploadLimit(req.ip, req.file.size)
UploadRequest(p) ==
  /\ Free(p) /\ calls < MaxCalls /\ calls' = calls + 1 /\ nextKey + UploadsWaiting < MaxKeys
  /\ \E c \in Ips, f \in Files \cup {NoFile} :
       IF f = NoFile
         THEN /\ h' = [h EXCEPT ![p] = [HIdle EXCEPT !.kind = "upload", !.ip = c,
                          !.resp = [status |-> 400, message |-> "No file provided"]]]
              /\ pc' = [pc EXCEPT ![p] = "done"]
              /\ UNCHANGED q
         ELSE /\ h' = [h EXCEPT ![p] = [HIdle EXCEPT !.kind = "upload", !.ip = c, !.file = f]]
              /\ q' = [q EXCEPT ![p] = QCall("upload", "ctl", c, f.size,
                                             DailyKey("upload", c, now))]
              /\ pc' = [pc EXCEPT ![p] = "ul_get"]
  /\ UNCHANGED <<calc, eq, job, now, kv, redisFaults, storeVars>>

\* a faulty variant of the controller's test: no decision stops the upload
Refused_Never(limitCheck) == FALSE
\* `if (!limitCheck.allowed)`
Refused(limitCheck) == ~limitCheck.allowed

\* FileController.uploadFile after checkUploadLimit settled: 429 with the
\* decision's message when not allowed, fileService.uploadFile otherwise
UploadDecided(p) ==
  /\ pc[p] = "ul_ret" /\ h[p].kind = "upload"
  /\ IF Refused(q[p].dec)
       THEN /\ h' = [h EXCEPT ![p].dec = q[p].dec,
                              ![p].resp = [status |-> 429, message |-> q[p].dec.message]]
            /\ pc' = [pc EXCEPT ![p] = "done"]
            /\ UNCHANGED <<s, nextKey, sw>>
       ELSE /\ h' = [h EXCEPT ![p].dec = q[p].dec, ![p].backend = TRUE]
            /\ s' = [s EXCEPT ![p] = UploadFrame(h[p].file, nextKey + 1, now)]
            /\ nextKey' = nextKey + 1
            /\ pc' = [pc EXCEPT ![p] = FirstPc("upload")]
            /\ sw' = SweepSeesCall
  /\ q' = [q EXCEPT ![p] = QIdle]
  /\ UNCHANGED <<calc, eq, job, now, calls, kv, redisFaults, provider, files, metas, ioFaults,
                 uploaded, removed, deleted>>

\* FileController.uploadFile after fileService.uploadFile settled: 201 with the
\* key pair, or the catch block's 500
UploadStored(p) ==
  /\ pc[p] = "st_ret" /\ h[p].kind = "upload"
  /\ h' = [h EXCEPT ![p].resp = IF s[p].ok THEN [status |-> 201, message |-> ""]
                                 ELSE [status |-> 500, message |-> "File upload failed"]]
  /\ s' = [s EXCEPT ![p] = SIdle]
  /\ pc' = [pc EXCEPT ![p] = "done"]
  /\ UNCHANGED <<calc, eq, job, now, calls, quotaVars, provider, files, metas, nextKey, ioFaults, sw,
                 uploaded, removed, deleted>>

\* the response has been sent; the connection is free for the next request
Finish(p) ==
  /\ pc[p] = "done"
  /\ pc' = [pc EXCEPT ![p] = "idle"]
  /\ h' = [h EXCEPT ![p] = HIdle]
  /\ UNCHANGED <<calc, eq, job, now, calls, quotaVars, storeVars>>

\* GET /files/:publicKey: the downloadRateLimit middleware runs first and
\* calls checkDownloadLimit(req.ip)
DownloadRequest(p) ==
  /\ Free(p) /\ calls < MaxCalls /\ calls' = calls + 1
  /\ \E c \in Ips, k \in PublicKeyParams :
       /\ h' = [h EXCEPT ![p] = [HIdle EXCEPT !.kind = "download", !.ip = c, !.key = k]]
       /\ q' = [q EXCEPT ![p] = QCall("download", "mw", c, 0, DailyKey("download", c, now))]
  /\ pc' = [pc EXCEPT ![p] = "dl_get"]
  /\ UNCHANGED <<calc, eq, job, now, kv, redisFaults, storeVars>>

\* downloadRateLimit after checkDownloadLimit settled: whatever was thrown is
\* answered with 429 "Daily download limit exceeded"; otherwise next() enters
\* FileController.downloadFile, which validates the key format (400) and calls
\* checkDownloadLimit(ip) a second time
MwDownloadDecided(p) ==
  /\ pc[p] = "dl_ret" /\ q[p].site = "mw"
  /\ IF q[p].err # NoErr
       THEN /\ h' = [h EXCEPT ![p].mwErr = q[p].err,
                              ![p].resp = [status |-> 429,
                                           message |-> "Daily download limit exceeded"]]
            /\ q' = [q EXCEPT ![p] = QIdle]
            /\ pc' = [pc EXCEPT ![p] = "done"]
     ELSE IF ~WellFormedPublicKey(h[p].key)
       THEN /\ h' = [h EXCEPT ![p].resp = [status |-> 400,
                                           message |-> "Invalid public key format"]]
            /\ q' = [q EXCEPT ![p] = QIdle]
            /\ pc' = [pc EXCEPT ![p] = "done"]
     ELSE /\ q' = [q EXCEPT ![p] = QCall("download", "ctl", h[p].ip, 0,
                                         DailyKey("download", h[p].ip, now))]
          /\ pc' = [pc EXCEPT ![p] = "dl_get"]
          /\ UNCHANGED h
  /\ UNCHANGED <<calc, eq, job, now, calls, kv, redisFaults, storeVars>>

\* FileController.downloadFile after its own checkDownloadLimit settled: an
\* error goes to next(err), otherwise fileService.downloadFile(publicKey)
CtlDownloadDecided(p) ==
  /\ pc[p] = "dl_ret" /\ q[p].site = "ctl"
  /\ IF q[p].err # NoErr
       THEN /\ h' = [h EXCEPT ![p].ctlErr = q[p].err, ![p].resp = ErrorHandler(q[p].err)]
            /\ pc' = [pc EXCEPT ![p] = "done"]
            /\ UNCHANGED <<s, sw>>
       ELSE /\ h' = [h EXCEPT ![p].backend = TRUE]
            /\ s' = [s EXCEPT ![p] = DownloadFrame(h[p].key)]
            /\ pc' = [pc EXCEPT ![p] = FirstPc("download")]
            /\ sw' = SweepSeesCall
  /\ q' = [q EXCEPT ![p] = QIdle]
  /\ UNCHANGED <<calc, eq, job, now, calls, kv, redisFaults, provider, files, metas, nextKey, ioFaults,
                 uploaded, removed, deleted>>

\* FileController.downloadFile after fileService.downloadFile settled: next(err)
\* on failure; otherwise the headers are set and the stream is piped to res
DownloadFetched(p) ==
  /\ pc[p] = "st_ret" /\ h[p].kind = "download"
  /\ IF s[p].ok
       THEN /\ h' = [h EXCEPT ![p].resp = [status |-> 200, message |-> ""]]
            /\ pc' = [pc EXCEPT ![p] = "piping"]
            /\ UNCHANGED s
       ELSE /\ h' = [h EXCEPT ![p].resp = ErrorHandler(s[p].err)]
            /\ pc' = [pc EXCEPT ![p] = "done"]
            /\ s' = [s EXCEPT ![p] = SIdle]
  /\ UNCHANGED <<calc, eq, job, now, calls, quotaVars, provider, files, metas, nextKey, ioFaults, sw,
                 uploaded, removed, deleted>>

\* a faulty variant of the size handed to trackDownload: one byte per download
TrackedSize_One(file) == 1
\* `file.size` in `rateLimitService.trackDownload(ip, file.size)`
TrackedSize(file) == file.size

\* res 'finish': the response is out, trackDownload(ip, file.size) is called
ResFinish(p) ==
  /\ pc[p] = "piping"
  /\ q' = [q EXCEPT ![p] = QCall("track", "ctl", h[p].ip, TrackedSize(s[p].res),
                                 DailyKey("download", h[p].ip, now))]
  /\ s' = [s EXCEPT ![p] = SIdle]
  /\ pc' = [pc EXCEPT ![p] = "td_incr"]
  /\ UNCHANGED <<calc, eq, job, now, calls, kv, redisFaults, h, provider, files, metas, nextKey, ioFaults, sw,
                 uploaded, removed, deleted>>

\* trackDownload settled; a failure is only logged by the 'finish' handler
TrackDone(p) ==
  /\ pc[p] = "td_ret" /\ h[p].kind = "download"
  /\ q' = [q EXCEPT ![p] = QIdle]
  /\ pc' = [pc EXCEPT ![p] = "done"]
  /\ UNCHANGED <<calc, eq, job, now, calls, kv, redisFaults, h, storeVars>>

\* DELETE /files/:privateKey: FileController.deleteFile calls
\* fileService.deleteFile(privateKey)
DeleteRequest(p) ==
  /\ Free(p) /\ calls < MaxCalls /\ calls' = calls + 1
  /\ \E k \in PrivateKeyParams :
       /\ h' = [h EXCEPT ![p] = [HIdle EXCEPT !.kind = "delete", !.key = k,
                                              !.backend = TRUE]]
       /\ s' = [s EXCEPT ![p] = DeleteFrame(k)]
  /\ pc' = [pc EXCEPT ![p] = FirstPc("delete")]
  /\ sw' = SweepSeesCall
  /\ UNCHANGED <<calc, eq, job, now, quotaVars, provider, files, metas, nextKey, ioFaults,
                 uploaded, removed, deleted>>

\* FileController.deleteFile after fileService.deleteFile settled: res.json of
\* the result, or next(err)
DeleteDone(p) ==
  /\ pc[p] = "st_ret" /\ h[p].kind = "delete"
  /\ h' = [h EXCEPT ![p].resp = IF s[p].ok THEN [status |-> 200, message |-> ""]
                                 ELSE ErrorHandler(s[p].err)]
  /\ s' = [s EXCEPT ![p] = SIdle]
  /\ pc' = [pc EXCEPT ![p] = "done"]
  /\ UNCHANGED <<calc, eq, job, now, calls, quotaVars, provider, files, metas, nextKey, ioFaults, sw,
                 uploaded, removed, deleted>>

(*------------------- RateLimitController (rateLimit.controller.js) -----*)
\* a call of checkUploadLimit / checkDownloadLimit / trackDownload of the
\* controller variant of the quota engine
C_Call(p) ==
  /\ Free(p) /\ calls < MaxDirectCalls /\ calls' = calls + 1
  /\ \E c \in Clients, f \in Files :
       \/ /\ q' = [q EXCEPT ![p] = QCall("upload", "rlc", c, f.size,
                                         DailyKey("upload", c, now))]
          /\ pc' = [pc EXCEPT ![p] = "c_ul_get"]
       \/ /\ q' = [q EXCEPT ![p] = QCall("download", "rlc", c, 0,
                                         DailyKey("download", c, now))]
          /\ pc' = [pc EXCEPT ![p] = "c_dl_get"]
       \/ /\ q' = [q EXCEPT ![p] = QCall("track", "rlc", c, f.size,
                                         DailyKey("download", c, now))]
          /\ pc' = [pc EXCEPT ![p] = "c_inc_get"]
  /\ UNCHANGED <<calc, eq, job, now, kv, redisFaults, h, storeVars>>

\* checkUploadLimit: `await this.getAsync(key)` and the limit test
C_UL_Get(p) ==
  /\ pc[p] = "c_ul_get"
  /\ \/ /\ RedisFault
        /\ q' = [q EXCEPT ![p].err = [RedisError EXCEPT !.statusCode = 0],
                          ![p].faulted = TRUE]
        /\ pc' = [pc EXCEPT ![p] = "c_ret"]
     \/ /\ UNCHANGED redisFaults
        /\ LET current == RedisGet(kv, q[p].key) IN
           IF OverUploadLimit(current, q[p].size, UploadLimit)
             THEN /\ q' = [q EXCEPT ![p].current = current, ![p].read = TRUE,
                            ![p].err = [DownloadLimitError EXCEPT !.statusCode = 0,
                                          !.message = "Daily upload limit exceeded"]]
                  /\ pc' = [pc EXCEPT ![p] = "c_ret"]
             ELSE /\ q' = [q EXCEPT ![p].current = current, ![p].read = TRUE]
                  /\ pc' = [pc EXCEPT ![p] = "c_inc_get"]
  /\ UNCHANGED <<calc, eq, job, now, calls, kv, h, storeVars>>

\* checkDownloadLimit: `await this.getAsync(key)` and the limit test
C_DL_Get(p) ==
  /\ pc[p] = "c_dl_get"
  /\ \/ /\ RedisFault
        /\ q' = [q EXCEPT ![p].err = [RedisError EXCEPT !.statusCode = 0],
                          ![p].faulted = TRUE]
     \/ /\ UNCHANGED redisFaults
        /\ LET current == RedisGet(kv, q[p].key) IN
           q' = [q EXCEPT ![p].current = current, ![p].read = TRUE,
                          ![p].err = IF OverDownloadLimit(current, DownloadLimit)
                                       THEN [DownloadLimitError EXCEPT !.statusCode = 0]
                                       ELSE NoErr]
  /\ pc' = [pc EXCEPT ![p] = "c_ret"]
  /\ UNCHANGED <<calc, eq, job, now, calls, kv, h, storeVars>>

\* _incrementWithTTL: `const current = parseInt(await this.getAsync(key)) || 0`
C_Inc_Get(p) ==
  /\ pc[p] = "c_inc_get"
  /\ \/ /\ RedisFault
        /\ q' = [q EXCEPT ![p].err = [RedisError EXCEPT !.statusCode = 0],
                          ![p].faulted = TRUE]
        /\ pc' = [pc EXCEPT ![p] = "c_ret"]
     \/ /\ UNCHANGED redisFaults
        /\ q' = [q EXCEPT ![p].current = RedisGet(kv, q[p].key), ![p].read = TRUE]
        /\ pc' = [pc EXCEPT ![p] = "c_inc_incr"]
  /\ UNCHANGED <<calc, eq, job, now, calls, kv, h, storeVars>>

\* _incrementWithTTL: `await this.incrbyAsync(key, value)`
C_Inc_Incr(p) ==
  /\ pc[p] = "c_inc_incr"
  /\ \/ /\ RedisFault
        /\ q' = [q EXCEPT ![p].err = [RedisError EXCEPT !.statusCode = 0],
                          ![p].faulted = TRUE]
        /\ pc' = [pc EXCEPT ![p] = "c_ret"]
        /\ UNCHANGED kv
     \/ /\ UNCHANGED redisFaults
        /\ kv' = RedisIncrBy(kv, q[p].key, q[p].size)
        /\ q' = MarkOthers([q EXCEPT ![p].pre = RedisGet(kv, q[p].key)], p, q[p].key)
        /\ pc' = [pc EXCEPT ![p] = IF q[p].current = 0 THEN "c_inc_setex" ELSE "c_ret"]
  /\ UNCHANGED <<calc, eq, job, now, calls, h, storeVars>>

\* _incrementWithTTL: `await this.setexAsync(key, ttl, value)`
C_Inc_SetEx(p) ==
  /\ pc[p] = "c_inc_setex"
  /\ \/ /\ RedisFault
        /\ q' = [q EXCEPT ![p].err = [RedisError EXCEPT !.statusCode = 0],
                          ![p].faulted = TRUE]
        /\ UNCHANGED kv
     \/ /\ UNCHANGED redisFaults
        /\ kv' = RedisSetEx(kv, q[p].key, ExpireSeconds, q[p].size, now)
        /\ q' = MarkOthers([q EXCEPT ![p].expSet = TRUE], p, q[p].key)
  /\ pc' = [pc EXCEPT ![p] = "c_ret"]
  /\ UNCHANGED <<calc, eq, job, now, calls, h, storeVars>>

\* the call has settled
C_Return(p) ==
  /\ pc[p] = "c_ret"
  /\ q' = [q EXCEPT ![p] = QIdle]
  /\ pc' = [pc EXCEPT ![p] = "idle"]
  /\ UNCHANGED <<calc, eq, job, now, calls, kv, redisFaults, h, storeVars>>

(*------------------- the parsing helpers -------------------------------*)
\* A string is a sequence of one-character strings.  A JavaScript number is
\* [nan, val]: NaN, or the integer val.
NaN == [nan |-> TRUE, val |-> 0]
Num(v) == [nan |-> FALSE, val |-> v]
\* `a * n`: NaN times anything is NaN
Times(a, n) == IF a.nan THEN NaN ELSE Num(a.val * n)
\* `t - a`
Minus(t, a) == IF a.nan THEN NaN ELSE Num(t - a.val)
\* `a || 0`: NaN and 0 are falsy
OrZero(a) == IF a.nan \/ a.val = 0 THEN Num(0) ELSE a

DigitChars == <<"0", "1", "2", "3", "4", "5", "6", "7", "8", "9">>
IsDigit(c) == \E i \in 1..10 : DigitChars[i] = c
DigitValue(c) == (CHOOSE i \in 1..10 : DigitChars[i] = c) - 1

\* str.slice(-n): the last n characters, the whole string when it is shorter
SliceLast(str, n) ==
  IF Len(str) <= n THEN str ELSE SubSeq(str, Len(str) - n + 1, Len(str))
\* str.slice(0, -n): all but the last n characters
SliceButLast(str, n) == IF Len(str) <= n THEN <<>> ELSE SubSeq(str, 1, Len(str) - n)

RECURSIVE TrimStart(_)
TrimStart(str) ==
  IF str # <<>> /\ Head(str) = " " THEN TrimStart(Tail(str)) ELSE str
RECURSIVE LeadingDigits(_)
LeadingDigits(str) ==
  IF str = <<>> \/ ~IsDigit(Head(str)) THEN <<>>
  ELSE <<Head(str)>> \o LeadingDigits(Tail(str))
RECURSIVE DecimalValue(_)
DecimalValue(ds) ==
  IF ds = <<>> THEN 0
  ELSE 10 * DecimalValue(SubSeq(ds, 1, Len(ds) - 1)) + DigitValue(ds[Len(ds)])

\* parseInt(str) in radix 10: leading blanks are skipped, then a sign, then
\* the longest run of digits is read; NaN when there is no digit to read
ParseInt(str) ==
  LET t == TrimStart(str)
      signed == t # <<>> /\ Head(t) \in {"-", "+"}
      ds == LeadingDigits(IF signed THEN Tail(t) ELSE t)
  IN IF ds = <<>> THEN NaN
     ELSE IF signed /\ Head(t) = "-" THEN Num(0 - DecimalValue(ds))
     ELSE Num(DecimalValue(ds))

\* RateLimitService.parseSize(sizeStr)
ParseSize(sizeStr) ==
  LET unit == SliceLast(sizeStr, 2)
      value == ParseInt(SliceButLast(sizeStr, 2))
  IN CASE unit = <<"M", "B">> -> Times(value, 1024 * 1024)
       [] unit = <<"G", "B">> -> Times(value, 1024 * 1024 * 1024)
       [] OTHER -> OrZero(ParseInt(sizeStr))

\* parseInactivityPeriod(period) of both backends.  Durations are in seconds:
\* the code's milliseconds divided by 1000, which every factor of it carries.
ParseInactivityPeriod(period) ==
  LET unit == SliceLast(period, 1)
      value == ParseInt(SliceButLast(period, 1))
  IN CASE unit = <<"d">> -> Times(value, 24 * 60 * 60)
       [] unit = <<"h">> -> Times(value, 60 * 60)
       [] unit = <<"m">> -> Times(value, 60)
       [] OTHER -> Num(30 * 24 * 60 * 60)

\* Date.now() of clock tick t, in seconds
SecondsOf(t) == (t * 86400) \div TicksPerDay
\* `new Date(Date.now() - this.parseInactivityPeriod(inactivityPeriod))`
CutoffDate(t, period) == Minus(SecondsOf(t), ParseInactivityPeriod(period))

\* the texts the helpers are called with: a numeral, or what stands in its
\* place, followed by a unit; every product stays below 2^31
Numerals ==
  {<<>>, <<"0">>, <<"1">>, <<"7">>, <<"3", "0">>, <<"1", "0", "0">>, <<"5", "0", "0">>,
   <<"0", "7">>, <<" ", "1">>, <<"-", "1">>, <<"1", ".", "5">>, <<"1", "x">>, <<"x">>}
SizeUnits ==
  {<<>>, <<"M", "B">>, <<"m", "b">>, <<"M", "b">>, <<"K", "B">>, <<"B">>, <<" ", "M", "B">>}
GigaNumerals == {<<>>, <<"0">>, <<"1">>, <<" ", "1">>, <<"x">>}
GigaUnits == {<<"G", "B">>, <<"g", "b">>, <<"G", "b">>}
SizeStrings ==
  {n \o u : n \in Numerals, u \in SizeUnits} \cup {n \o u : n \in GigaNumerals, u \in GigaUnits}
PeriodUnits == {<<>>, <<"d">>, <<"h">>, <<"m">>, <<"D">>, <<"s">>, <<"d", " ">>}
PeriodStrings == {n \o u : n \in Numerals, u \in PeriodUnits}

CalcIdle == [fn |-> "none", arg |-> <<>>, out |-> Num(0), cutoff |-> Num(0)]

\* a call of parseSize(sizeStr), as checkUploadLimit and checkDownloadLimit make it
ParseSizeCall ==
  /\ \E str \in SizeStrings :
       calc' = [fn |-> "parseSize", arg |-> str, out |-> ParseSize(str), cutoff |-> Num(0)]
  /\ UNCHANGED <<eq, job, now, calls, pc, h, quotaVars, storeVars>>

\* a call of parseInactivityPeriod(period), as cleanupInactiveFiles makes it
\* for its cutoff
ParsePeriodCall ==
  /\ \E str \in PeriodStrings :
       calc' = [fn |-> "parseInactivityPeriod", arg |-> str,
                out |-> ParseInactivityPeriod(str), cutoff |-> CutoffDate(now, str)]
  /\ UNCHANGED <<eq, job, now, calls, pc, h, quotaVars, storeVars>>

(*------------------- one sequence of calls on both backends -------------*)
\* A caller makes a sequence of calls, one after the other, on the backend
\* wired in (phase "first"); then the same sequence, with the same generated
\* keys and the same clock, is made on the other backend over an empty store
\* (phase "second").  No filesystem / bucket call fails in either run.
EqIdle ==
  [phase |-> "off", log |-> <<>>, pos |-> 0, data1 |-> Empty, metas1 |-> Empty]
NoResult == [set |-> FALSE, ok |-> FALSE, err |-> NoErr, deletedCount |-> 0, errorCount |-> 0]
OtherProvider == IF provider = "local" THEN "google" ELSE "local"
\* the payloads in the store
DataOf(f) == [k \in DOMAIN f |-> f[k].data]

\* the calls a sequence is made of, and the passing of one clock tick
EqCalls ==
  {[op |-> "upload", file |-> f, key |-> NoPub] : f \in ApiFiles}
  \cup {[op |-> "download", file |-> NoFile, key |-> PublicKey(n)] : n \in Presentable}
  \cup {[op |-> "delete", file |-> NoFile, key |-> x] : x \in DeleteArgs}
  \cup {[op |-> "sweep", file |-> NoFile, key |-> NoPub]}
EqTickCall == [op |-> "tick", file |-> NoFile, key |-> NoPub]
\* how many calls the sequence has
EqLength == Cardinality({i \in 1..Len(eq.log) : eq.log[i].call.op # "tick"})

\* what comes next: any call in the first run, the logged one in the second
EqNextCalls ==
  IF eq.phase = "first"
    THEN IF EqLength < MaxOps THEN EqCalls \cup {EqTickCall} ELSE {EqTickCall}
  ELSE IF eq.phase = "second" /\ eq.pos <= Len(eq.log) THEN {eq.log[eq.pos].call}
  ELSE {}
\* the call has begun: the first run writes it down
EqBegun(c) ==
  IF eq.phase = "first"
    THEN [eq EXCEPT !.log = Append(@, [call |-> c, r1 |-> NoResult, r2 |-> NoResult])]
    ELSE eq
\* the call has settled with result r
EqSettled(r) ==
  IF eq.phase = "first"
    THEN [eq EXCEPT !.log[Len(eq.log)].r1 = r]
    ELSE [eq EXCEPT !.log[eq.pos].r2 = r, !.pos = @ + 1]
EqQuiet == pc["p1"] = "idle" /\ sw.pc = "idle"

\* the first run begins on the backend wired in
EqStart ==
  /\ eq.phase = "off"
  /\ eq' = [eq EXCEPT !.phase = "first"]
  /\ ioFaults' = MaxIoFaults
  /\ UNCHANGED <<calc, job, now, calls, pc, h, quotaVars, provider, files, metas, nextKey,
                 s, sw, uploaded, removed, deleted>>

\* uploadFile(file), downloadFile(publicKey) or deleteFile(privateKey) is called
EqCall ==
  /\ EqQuiet
  /\ \E c \in EqNextCalls :
       /\ c.op \in {"upload", "download", "delete"}
       /\ c.op = "upload" => nextKey < MaxKeys
       /\ s' = [s EXCEPT !["p1"] =
                  CASE c.op = "upload" -> UploadFrame(c.file, nextKey + 1, now)
                    [] c.op = "download" -> DownloadFrame(c.key)
                    [] OTHER -> DeleteFrame(c.key)]
       /\ nextKey' = IF c.op = "upload" THEN nextKey + 1 ELSE nextKey
       /\ pc' = [pc EXCEPT !["p1"] = FirstPc(c.op)]
       /\ eq' = EqBegun(c)
  /\ UNCHANGED <<calc, job, now, calls, h, quotaVars, provider, files, metas, ioFaults,
                 sw, uploaded, removed, deleted>>

\* the call settles: the caller has the result or the error
EqReturn ==
  /\ pc["p1"] = "st_ret" /\ eq.phase \in {"first", "second"}
  /\ eq' = EqSettled([NoResult EXCEPT !.set = TRUE, !.ok = s["p1"].ok, !.err = s["p1"].err])
  /\ s' = [s EXCEPT !["p1"] = SIdle]
  /\ pc' = [pc EXCEPT !["p1"] = "idle"]
  /\ UNCHANGED <<calc, job, now, calls, h, quotaVars, provider, files, metas, nextKey,
                 ioFaults, sw, uploaded, removed, deleted>>

\* cleanupInactiveFiles(inactivityPeriod) is called
EqSweep ==
  /\ EqQuiet
  /\ \E c \in EqNextCalls : c.op = "sweep" /\ eq' = EqBegun(c)
  /\ sw' = SweepFrame
  /\ UNCHANGED <<calc, job, now, calls, pc, h, quotaVars, provider, files, metas, nextKey,
                 ioFaults, s, uploaded, removed, deleted>>

\* the sweep returns { deletedCount, errorCount, errors }
EqSweepReturn ==
  /\ sw.pc = "sw_ret" /\ eq.phase \in {"first", "second"}
  /\ eq' = EqSettled([NoResult EXCEPT !.set = TRUE, !.ok = ~sw.thrown,
                                       !.deletedCount = sw.deletedCount,
                                       !.errorCount = Cardinality(sw.errors)])
  /\ sw' = SwIdle
  /\ UNCHANGED <<calc, job, now, calls, pc, h, quotaVars, provider, files, metas, nextKey,
                 ioFaults, s, uploaded, removed, deleted>>

\* the clock advances between two calls
EqTick ==
  /\ EqQuiet /\ now < MaxTicks
  /\ \E c \in EqNextCalls :
       /\ c.op = "tick"
       /\ eq' = IF eq.phase = "first" THEN EqBegun(c) ELSE [eq EXCEPT !.pos = @ + 1]
  /\ now' = now + 1
  /\ UNCHANGED <<calc, job, calls, pc, h, quotaVars, storeVars>>

\* the first run is over: what it stored is kept aside, and the second run
\* begins on the other backend, empty, with the clock and the key generator reset
EqSwitch ==
  /\ EqQuiet /\ eq.phase = "first" /\ EqLength > 0
  /\ eq' = [eq EXCEPT !.phase = "second", !.pos = 1, !.data1 = DataOf(files),
                       !.metas1 = metas]
  /\ provider' = OtherProvider
  /\ files' = Empty /\ metas' = Empty /\ nextKey' = 0 /\ now' = 0
  /\ uploaded' = Empty /\ removed' = {} /\ deleted' = {}
  /\ UNCHANGED <<calc, job, calls, pc, h, quotaVars, ioFaults, s, sw>>

\* the second run is over
EqDone ==
  /\ EqQuiet /\ eq.phase = "second" /\ eq.pos > Len(eq.log)
  /\ eq' = [eq EXCEPT !.phase = "done"]
  /\ UNCHANGED <<calc, job, now, calls, pc, h, quotaVars, storeVars>>

\* one step of a backend call or of the sweep, no failure being injected
EqStep ==
  \/ L_UpOpen("p1") \/ L_UpWrite("p1") \/ L_UpMeta("p1")
  \/ L_UpCleanFile("p1") \/ L_UpCleanMeta("p1")
  \/ G_UpMeta("p1") \/ G_UpWrite("p1")
  \/ L_DnAccessMeta("p1") \/ L_DnAccessFile("p1") \/ L_DnRead("p1") \/ L_DnTouch("p1")
  \/ L_DnStat("p1")
  \/ G_DnRead("p1") \/ G_DnTouch("p1") \/ G_DnStat("p1")
  \/ L_RmList("p1") \/ L_RmScan("p1") \/ L_RmUnlink("p1")
  \/ G_RmList("p1") \/ G_RmScan("p1") \/ G_RmUnlink("p1")
  \/ SwList \/ SwScan \/ L_SwDel \/ G_SwDel


(*------------------- the specifications --------------------------------*)
Init ==
  /\ now = 0
  /\ calls = 0
  /\ kv = Empty
  /\ redisFaults = 0
  /\ pc = [p \in Procs |-> "idle"]
  /\ h = [p \in Procs |-> HIdle]
  /\ q = [p \in Procs |-> QIdle]
  /\ provider \in {"local", "google"}
  /\ files = Empty
  /\ metas = Empty
  /\ nextKey = 0
  /\ ioFaults = 0
  /\ s = [p \in Procs |-> SIdle]
  /\ sw = SwIdle
  /\ uploaded = Empty
  /\ removed = {}
  /\ deleted = {}
  /\ job = JobInit
  /\ calc = CalcIdle
  /\ eq = EqIdle

\* one step of a RateLimitService call
QuotaStep(p) ==
  \/ UL_Get(p) \/ UL_Incr(p) \/ UL_Expire(p)
  \/ DL_Get(p)
  \/ TD_Incr(p) \/ TD_Get(p) \/ TD_Expire(p)

\* one step of a storage-backend call
StorageStep(p) ==
  \/ L_UpOpen(p) \/ L_UpWrite(p) \/ L_UpMeta(p) \/ L_UpCleanFile(p) \/ L_UpCleanMeta(p)
  \/ G_UpMeta(p) \/ G_UpWrite(p) \/ G_UpClean(p)
  \/ L_DnAccessMeta(p) \/ L_DnAccessFile(p) \/ L_DnRead(p) \/ L_DnTouch(p) \/ L_DnStat(p)
  \/ G_DnRead(p) \/ G_DnTouch(p) \/ G_DnStat(p)
  \/ L_RmList(p) \/ L_RmScan(p) \/ L_RmUnlink(p)
  \/ G_RmList(p) \/ G_RmScan(p) \/ G_RmUnlink(p)

\* one step of the sweep
SweepStep == SweepBegin \/ SwList \/ SwScan \/ L_SwDel \/ G_SwDel \/ SweepReturn

\* one step of an HTTP request
HttpStep(p) ==
  \/ UploadRequest(p) \/ UploadDecided(p) \/ UploadStored(p)
  \/ DownloadRequest(p) \/ MwDownloadDecided(p) \/ CtlDownloadDecided(p)
  \/ DownloadFetched(p) \/ ResFinish(p) \/ TrackDone(p)
  \/ DeleteRequest(p) \/ DeleteDone(p)
  \/ Finish(p)

\* the service as deployed: HTTP requests over the quota engine and the backend,
\* served within one tick of the clock
Next == \E p \in Procs : HttpStep(p) \/ QuotaStep(p) \/ StorageStep(p)
Spec == Init /\ [][Next]_vars

\* a direct call of a backend operation, begun, advanced or returned
ApiStep(p) ==
  ApiUpload(p) \/ ApiDownload(p) \/ ApiDelete(p) \/ ApiReturn(p) \/ StorageStep(p)

\* the storage backends called directly by concurrent callers
NextStore == Tick \/ \E p \in Procs : ApiStep(p)
SpecStore == Init /\ [][NextStore]_vars

\* the sweep running beside one caller of the backend
NextSweep == Tick \/ SweepStep \/ Corrupt \/ ApiStep("p1")
SpecSweep == Init /\ [][NextSweep]_vars

\* the scheduler over an empty store, driven by start(), stop(), runCleanup()
\* and its timers
NextJob ==
  \/ \E c \in StartCalls : JobStart(c) \/ JobArm(c)
  \/ JobTimer \/ JobRunCleanup \/ JobStop
  \/ JobSwList \/ JobCleanupDone
SpecJob == Init /\ [][NextJob]_vars
\* every I/O event and every promise continuation is eventually taken
JobFairness ==
  /\ WF_vars(JobSwList) /\ WF_vars(JobCleanupDone)
  /\ WF_vars(\E c \in StartCalls : JobArm(c))
SpecJobLive == SpecJob /\ JobFairness

\* the quota engine does not depend on the backend wired in
InitQuota == Init /\ provider = "local"

\* the quota engine called directly
NextQuota == Tick \/ \E p \in Procs : Q_Call(p) \/ Q_Return(p) \/ QuotaStep(p)
SpecQuota == InitQuota /\ [][NextQuota]_vars

\* the controller variant of the quota engine, called directly
NextQuotaCtl ==
  \/ Tick
  \/ \E p \in Procs : C_Call(p) \/ C_UL_Get(p) \/ C_DL_Get(p) \/ C_Inc_Get(p)
                        \/ C_Inc_Incr(p) \/ C_Inc_SetEx(p) \/ C_Return(p)
SpecQuotaCtl == InitQuota /\ [][NextQuotaCtl]_vars

\* one sequence of backend calls, made on one backend and then on the other
NextEquiv ==
  \/ EqStart \/ EqCall \/ EqReturn \/ EqSweep \/ EqSweepReturn \/ EqTick
  \/ EqSwitch \/ EqDone \/ EqStep
SpecEquiv == Init /\ [][NextEquiv]_vars

\* the objects two earlier uploadFile calls left in the store, one per payload
Stock == [k \in {PublicKey(1), PublicKey(2)} |->
            MulterFile(IF k = PublicKey(1) THEN <<1>> ELSE <<1, 2>>)]

\* the service started over a store that holds these objects
InitMeter ==
  /\ now = 0 /\ calls = 0
  /\ kv = Empty /\ redisFaults = 0
  /\ pc = [p \in Procs |-> "idle"]
  /\ h = [p \in Procs |-> HIdle]
  /\ q = [p \in Procs |-> QIdle]
  /\ provider \in {"local", "google"}
  /\ files = [k \in DOMAIN Stock |->
                [data |-> Stock[k].data,
                 contentType |-> IF provider = "local" THEN NoType ELSE Stock[k].mimetype]]
  /\ metas = [k \in DOMAIN Stock |-> Metadata(PrivateKey(k[2]), Stock[k], 0)]
  /\ nextKey = Cardinality(DOMAIN Stock)
  /\ ioFaults = 0
  /\ s = [p \in Procs |-> SIdle]
  /\ sw = SwIdle
  /\ uploaded = Stock /\ removed = {} /\ deleted = {}
  /\ job = JobInit /\ calc = CalcIdle /\ eq = EqIdle

\* GET /files/:publicKey requests of one client, served within one day
NextMeter ==
  \E p \in Procs :
       \/ DownloadRequest(p) \/ MwDownloadDecided(p) \/ CtlDownloadDecided(p)
       \/ DownloadFetched(p) \/ ResFinish(p) \/ TrackDone(p) \/ Finish(p)
       \/ DL_Get(p) \/ TD_Incr(p) \/ TD_Get(p) \/ TD_Expire(p)
       \/ L_DnAccessMeta(p) \/ L_DnAccessFile(p) \/ L_DnRead(p) \/ L_DnTouch(p) \/ L_DnStat(p)
       \/ G_DnRead(p) \/ G_DnTouch(p) \/ G_DnStat(p)
SpecMeter == InitMeter /\ [][NextMeter]_vars

\* the parsing helpers called on their own, at any time of the clock
NextParse == Tick \/ ParseSizeCall \/ ParsePeriodCall
SpecParse == Init /\ [][NextParse]_vars

(*------------------------------ properties -----------------------------*)
\* C1: round trip.  A download that ran without a failing I/O call, of a key
\* whose upload (with a non-empty filename) had succeeded before the download
\* began and which nothing has removed, succeeds and returns the uploaded
\* bytes, with originalName, mimeType and size = len(P) as uploaded.
C1_RoundTrip ==
  \A p \in Procs :
    (/\ pc[p] = "st_ret" /\ s[p].op = "download"
     /\ s[p].known /\ ~s[p].faulted /\ s[p].pub \notin removed
     /\ uploaded[s[p].pub].originalname \notin {Undefined, ""})
    => /\ s[p].ok
       /\ s[p].res.data = uploaded[s[p].pub].data
       /\ s[p].res.originalName = uploaded[s[p].pub].originalname
       /\ s[p].res.mimeType = uploaded[s[p].pub].mimetype
       /\ s[p].res.size = Len(uploaded[s[p].pub].data)

C1_Witness ==
  \E p \in Procs :
    /\ pc[p] = "st_ret" /\ s[p].op = "download"
    /\ s[p].known /\ ~s[p].faulted /\ s[p].pub \notin removed
    /\ s[p].ok /\ Len(s[p].res.data) = 2 /\ s[p].res.originalName = "b.pdf"

\* C2: delete-then-download.  Once deleteFile has returned success for an
\* object, neither its payload nor its metadata is in the store, and a
\* download that begins afterwards fails with the not-found condition.
C2_DeletedIsGone ==
  /\ \A k \in deleted : k \notin DOMAIN files /\ k \notin DOMAIN metas
  /\ \A p \in Procs :
       (pc[p] = "st_ret" /\ s[p].op = "download" /\ s[p].afterDelete /\ ~s[p].faulted)
       => ~s[p].ok /\ (s[p].err.statusCode = 404 \/ s[p].err.code = "404")

\* C3: upload quota boundary.  A checkUploadLimit call whose counter-store
\* calls all succeeded and which read usage U allows the upload iff
\* U + b <= L, and its refusal is the quota-exceeded one (429).
C3_UploadBoundary ==
  \A p \in Procs :
    (pc[p] = "ul_ret" /\ q[p].read /\ ~q[p].faulted)
    => /\ q[p].dec.allowed <=> (q[p].current + q[p].size <= UploadLimit)
       /\ ~q[p].dec.allowed =>
            (q[p].dec.statusCode = 429 /\ q[p].dec.message = "Daily upload limit exceeded")

C3_Witness ==
  \E p, r \in Procs :
    /\ pc[p] = "ul_ret" /\ q[p].read /\ ~q[p].faulted
    /\ q[p].current + q[p].size = UploadLimit /\ q[p].dec.allowed
    /\ pc[r] = "ul_ret" /\ q[r].read /\ ~q[r].faulted
    /\ q[r].current + q[r].size = UploadLimit + 1 /\ ~q[r].dec.allowed

\* C4: effect of upload admission.  When the call read usage U, none of its
\* counter-store calls failed and nothing else changed the counter meanwhile,
\* an allowed decision leaves the counter at U + b and reports
\* currentUsage = U + b, limit = L, remaining = L - (U + b); a quota refusal
\* reports currentUsage = U, limit = L, remaining = max(0, L - U).
C4_UploadEffect ==
  \A p \in Procs :
    (pc[p] = "ul_ret" /\ q[p].read /\ ~q[p].faulted /\ ~q[p].interfered)
    => LET U == q[p].current
           b == q[p].size
           d == q[p].dec
       IN IF d.allowed
            THEN /\ RedisGet(kv, q[p].key) = U + b
                 /\ d.currentUsage = U + b /\ d.limit = UploadLimit
                 /\ d.remaining = UploadLimit - (U + b)
            ELSE /\ RedisGet(kv, q[p].key) = U
                 /\ d.currentUsage = U /\ d.limit = UploadLimit
                 /\ d.remaining = (IF UploadLimit - U > 0 THEN UploadLimit - U ELSE 0)

C4_Witness ==
  \E p \in Procs :
    /\ pc[p] = "ul_ret" /\ q[p].read /\ ~q[p].faulted /\ ~q[p].interfered
    /\ q[p].current > 0 /\ q[p].dec.allowed
    /\ RedisGet(kv, q[p].key) = q[p].current + q[p].size

\* C5: download admission boundary.  A checkDownloadLimit call that read
\* usage c fails with the limit-exceeded error iff c >= L, and passes otherwise.
C5_DownloadBoundary ==
  \A p \in Procs :
    (pc[p] = "dl_ret" /\ q[p].read)
    => /\ (q[p].err.statusCode = 429 /\ q[p].err.message = "Daily download limit exceeded")
            <=> q[p].current >= DownloadLimit
       /\ q[p].current < DownloadLimit => q[p].err = NoErr

C5_Witness ==
  \E p \in Procs :
    /\ pc[p] = "dl_ret" /\ q[p].read
    /\ q[p].current = DownloadLimit - 1 /\ q[p].current > 0 /\ q[p].err = NoErr

C7_DownloadFailClosed ==
  \A p \in Procs :
    (/\ h[p].kind = "download" /\ pc[p] = "done"
     /\ (h[p].mwErr.statusCode = 503 \/ h[p].ctlErr.statusCode = 503))
    => h[p].resp.status = 503 /\ ~h[p].backend

\* C8: counter monotonicity.  No step lowers the value stored under a key that
\* exists before and after the step.
C8_CounterMonotone ==
  [][\A k \in DOMAIN kv \cap DOMAIN kv' : kv'[k].val >= kv[k].val]_vars

\* C9: trackDownload.  A trackDownload call whose counter-store calls all
\* succeeded has added n to the counter, and has set the expiry iff its
\* increment took the counter from absent/zero.
C9_TrackExpiry ==
  \A p \in Procs :
    (pc[p] = "td_ret" /\ q[p].op = "track" /\ ~q[p].faulted)
    => (q[p].expSet <=> q[p].pre = 0)

\* C10: eviction cutoff.  A sweep that met no I/O error and ran beside no
\* other operation has removed payload and metadata of exactly the objects
\* whose lastAccessed was strictly before the cutoff, has left every other
\* object as it was, and reports their number as deletedCount.
C10_EvictionCutoff ==
  (sw.pc = "sw_ret" /\ ~sw.faulted /\ ~sw.concurrent /\ ~sw.thrown /\ sw.errors = {})
  => /\ \A k \in DOMAIN sw.metas0 :
          IF sw.metas0[k].lastAccessed < sw.cutoff
            THEN k \notin DOMAIN files /\ k \notin DOMAIN metas
            ELSE /\ k \in DOMAIN metas /\ metas[k] = sw.metas0[k]
                 /\ (k \in DOMAIN sw.files0) = (k \in DOMAIN files)
                 /\ k \in DOMAIN files => files[k] = sw.files0[k]
     /\ sw.deletedCount =
          Cardinality({k \in DOMAIN sw.metas0 : sw.metas0[k].lastAccessed < sw.cutoff})

C10_Witness ==
  /\ sw.pc = "sw_ret" /\ ~sw.faulted /\ ~sw.concurrent /\ ~sw.thrown /\ sw.errors = {}
  /\ sw.deletedCount = 1
  /\ \E k \in DOMAIN sw.metas0 : sw.metas0[k].lastAccessed = sw.cutoff /\ k \in DOMAIN files
  /\ \E k \in DOMAIN sw.metas0 : sw.metas0[k].lastAccessed < sw.cutoff /\ k \in DOMAIN sw.files0

\* C11: sweep isolation.  In a sweep that ran beside no other operation over
\* N listed objects of which exactly one, k, has unparsable metadata or met a
\* failing I/O call that its processing threw (all other objects having
\* parsable metadata and meeting no failure), every other object is still
\* processed: the inactive ones among them are removed and counted in
\* deletedCount, the others are untouched, errors holds k and nothing else,
\* and deletedCount + errorCount <= N.
C11_SweepIsolation ==
  \A k \in DOMAIN sw.metas0 :
    (/\ sw.pc = "sw_ret" /\ ~sw.thrown /\ ~sw.concurrent /\ ~sw.swallowed
     /\ sw.hit \cup {j \in DOMAIN sw.metas0 : ~sw.metas0[j].valid} = {k})
    => /\ sw.errors = {k}
       /\ LET others == DOMAIN sw.metas0 \ {k}
              old == {j \in others : sw.metas0[j].lastAccessed < sw.cutoff}
          IN /\ sw.deletedCount = Cardinality(old)
             /\ \A j \in old : j \notin DOMAIN files /\ j \notin DOMAIN metas
             /\ \A j \in others \ old : j \in DOMAIN metas /\ metas[j] = sw.metas0[j]
       /\ sw.deletedCount + Cardinality(sw.errors) <= Cardinality(DOMAIN sw.metas0)

C11_Witness ==
  /\ sw.pc = "sw_ret" /\ ~sw.thrown /\ ~sw.concurrent /\ ~sw.faulted
  /\ Cardinality(DOMAIN sw.metas0) = 2
  /\ \E k \in DOMAIN sw.metas0 : ~sw.metas0[k].valid /\ sw.errors = {k}
  /\ sw.deletedCount = 1

\* C12: no overlap.  At most one call of the storage cleanup operation is in
\* flight at any time; a timer tick or a runCleanup() call arriving while the
\* flag is set calls nothing (the sweep in flight, the store and the job's
\* flag are as before), and when the sweep settles no further sweep has been
\* queued behind it.
C12_NoOverlap ==
  /\ [](job.inflight <= 1 /\ (job.inflight = 1 <=> job.isRunning))
  /\ [][/\ ((JobTimer \/ JobRunCleanup) /\ job.isRunning)
            => /\ UNCHANGED <<sw, files, metas, ioFaults>>
               /\ job'.inflight = job.inflight /\ job'.isRunning
               /\ job'.owner = job.owner
        /\ JobCleanupDone => (job'.inflight = 0 /\ sw'.pc = "idle")]_vars

C12_Witness ==
  /\ job.ev = "tick-skip" /\ job.isRunning /\ job.inflight = 1 /\ sw.pc = "sw_list"
  /\ job.owner = "direct"

\* C13: scheduler liveness.  Every sweep that sets the flag is followed by the
\* flag being reset, and the step in which the cleanup call settles resets it
\* whether the call returned or threw.
C13_BackToIdle ==
  /\ job.isRunning ~> ~job.isRunning
  /\ [][JobCleanupDone => ~job'.isRunning]_vars

C13_Witness ==
  /\ job.isRunning /\ job.owner = "timer" /\ ioFaults = 1 /\ sw.pc = "sw_list"
  /\ ~sw.faulted

\* C14: stop() prevents future sweeps.  Between a stop() call and the next
\* start() call no timer begins a sweep.
C14_StopPrevents ==
  [][(job.stopped /\ job'.stopped)
       => ~(job'.inflight > job.inflight /\ job'.owner = "timer")]_vars

\* C15: single timer.  At most one timer is armed, and an armed timer is the
\* one the interval field refers to.
C15_SingleTimer ==
  /\ Cardinality(job.timers) <= 1
  /\ job.timers # {} => job.timers = {job.interval}

\* C16: upload atomicity on failure.  An upload in which persisting the
\* payload or the metadata failed (or which the backend rejected after it had
\* begun to write) fails with that error; when no cleanup deletion failed,
\* neither payload nor metadata is left under its publicKey; and no cleanup
\* step, failing or not, changes the error the upload fails with.
C16_UploadAtomic ==
  /\ [](\A p \in Procs :
          (pc[p] = "st_ret" /\ s[p].op = "upload" /\ (s[p].faulted \/ ~s[p].ok))
          => /\ ~s[p].ok /\ s[p].err # NoErr
             /\ ~s[p].failed =>
                  (s[p].pub \notin DOMAIN files /\ s[p].pub \notin DOMAIN metas))
  /\ [][\A p \in Procs :
          pc[p] \in {"up_clean_file", "up_clean_meta", "up_clean"}
          => s'[p].err = s[p].err /\ ~s'[p].ok]_vars

C16_Witness ==
  \E p \in Procs :
    /\ pc[p] = "st_ret" /\ s[p].op = "upload" /\ s[p].faulted /\ ~s[p].failed
    /\ s[p].pub \in removed /\ s[p].pub \notin DOMAIN files
    /\ s[p].pub \notin DOMAIN metas /\ s[p].err.message = "Metadata save failed"

\* C17: upload validation.  An upload whose originalname is missing or not a
\* string never writes a payload or a metadata object under its key, and it
\* fails with the validation error.
C17_ValidateFirst ==
  \A p \in Procs :
    (s[p].op = "upload" /\ InvalidOriginalName(s[p].file))
    => /\ s[p].pub \notin DOMAIN files /\ s[p].pub \notin DOMAIN metas
       /\ s[p].pub \notin removed
       /\ pc[p] = "st_ret" =>
            (~s[p].ok /\ (s[p].faulted \/ s[p].err.message = "Invalid original filename"))

\* C18: payload/metadata pairing.  When no I/O call has failed and no upload,
\* delete or sweep is between its first and its last step, a key has a
\* payload exactly if it has a metadata object.
C18_Paired ==
  (/\ ioFaults = 0
   /\ sw.pc \in {"idle", "sw_ret"}
   /\ \A p \in Procs : s[p].op \in {"upload", "delete"} => pc[p] = "st_ret")
  => DOMAIN files = DOMAIN metas

\* C19: lastAccessed monotonicity.  A metadata object is created with
\* lastAccessed = uploadedAt, and no step moves the stored lastAccessed of an
\* object backward.
C19_LastAccessedMonotone ==
  /\ [][\A k \in DOMAIN metas' \ DOMAIN metas :
          k \notin removed => metas'[k].lastAccessed = metas'[k].uploadedAt]_vars
  /\ [][\A k \in DOMAIN metas \cap DOMAIN metas' :
          (metas[k].valid /\ metas'[k].valid)
          => metas'[k].lastAccessed >= metas[k].lastAccessed]_vars

\* C20: download survives a failed touch.  A download that read payload and
\* metadata of an uploaded object and whose write of the new lastAccessed
\* failed still succeeds, with the object's name, type and size.
C20_TouchFailureTolerated ==
  \A p \in Procs :
    (pc[p] = "st_ret" /\ s[p].op = "download" /\ s[p].failed /\ s[p].known
     /\ s[p].pub \in DOMAIN files /\ s[p].pub \in DOMAIN metas)
    => /\ s[p].ok
       /\ s[p].res.originalName = uploaded[s[p].pub].originalname
       /\ s[p].res.mimeType = uploaded[s[p].pub].mimetype
       /\ s[p].res.size = Len(uploaded[s[p].pub].data)

\* C21: download of an unknown key.  A download, without a failing I/O call,
\* of a key that was never uploaded and has no metadata fails with status 404
\* and "File not found" and returns nothing.
C21_UnknownDownload ==
  \A p \in Procs :
    (/\ pc[p] = "st_ret" /\ s[p].op = "download" /\ ~s[p].faulted
     /\ s[p].pub \notin DOMAIN uploaded /\ s[p].pub \notin DOMAIN metas)
    => /\ ~s[p].ok /\ s[p].res = NoRes
       /\ s[p].err.statusCode = 404 /\ s[p].err.message = "File not found"

\* C22: delete with an unknown key.  A deleteFile call, without a failing I/O
\* call, with a key that was never generated fails with "Invalid private key".
C22_UnknownDelete ==
  \A p \in Procs :
    (/\ pc[p] = "st_ret" /\ s[p].op = "delete" /\ ~s[p].faulted
     /\ s[p].priv = PrivateKey(0))
    => ~s[p].ok /\ s[p].err.message = "Invalid private key"

\* the keys of the upload counters
UploadKeys == {DailyKey("upload", c, t) : c \in Clients, t \in 0..MaxTicks}

\* C23: backend equivalence.  When the same sequence of calls has been made
\* on both backends without I/O faults, every call had the same outcome on
\* both (success, or an error of the same kind; a sweep the same counts), and
\* at the end both hold the same payloads and the same metadata.
C23_BackendEquivalence ==
  LET kind(r) ==
        IF r.ok THEN "success"
        ELSE IF r.err.message = "Invalid original filename" THEN "validation"
        ELSE IF r.err.message = "Invalid private key" THEN "invalid key"
        ELSE IF \/ r.err.statusCode = 404 \/ r.err.code \in {"404", "ENOENT"}
                \/ r.err.message = "File not found" THEN "NotFound"
        ELSE "other"
  IN /\ \A i \in 1..Len(eq.log) :
          eq.log[i].r2.set =>
            /\ kind(eq.log[i].r1) = kind(eq.log[i].r2)
            /\ eq.log[i].r1.deletedCount = eq.log[i].r2.deletedCount
            /\ eq.log[i].r1.errorCount = eq.log[i].r2.errorCount
     /\ eq.phase = "done" => (DataOf(files) = eq.data1 /\ metas = eq.metas1)

\* C24: sequential hard cap.  The upload counter of a (client, day) passes the
\* limit L only in the increment of a checkUploadLimit call that read the
\* counter before another check raised it (the value it read is below the
\* counter it increments): checks that do not interleave keep the counter <= L.
C24_SequentialCap ==
  [][\A k \in UploadKeys :
       (RedisGet(kv, k) <= UploadLimit /\ RedisGet(kv', k) > UploadLimit)
       => \E p \in Procs :
            /\ pc[p] = "ul_incr" /\ pc'[p] # "ul_incr" /\ q[p].key = k
            /\ q[p].current < RedisGet(kv, k)]_vars

C24_Witness ==
  \E p \in Procs :
    /\ pc[p] = "ul_ret" /\ q[p].read /\ ~q[p].faulted /\ ~q[p].interfered
    /\ ~q[p].dec.allowed /\ q[p].current > 0 /\ q[p].current <= UploadLimit
    /\ RedisGet(kv, q[p].key) = q[p].current

\* C25: soft-limit race.  Whenever an admitted checkUploadLimit call stands
\* beside a counter above L, the call itself satisfied U + b <= L and was
\* interleaved with another call on its counter; such a state is reachable,
\* with two admitted calls that read the same U.
C25_SoftLimitRace ==
  \A p \in Procs :
    (/\ pc[p] = "ul_ret" /\ q[p].read /\ q[p].dec.allowed
     /\ RedisGet(kv, q[p].key) > UploadLimit)
    => q[p].current + q[p].size <= UploadLimit /\ q[p].interfered

C25_Witness ==
  \E p, r \in Procs :
    /\ p # r /\ pc[p] = "ul_ret" /\ pc[r] = "ul_ret" /\ q[p].key = q[r].key
    /\ q[p].dec.allowed /\ q[r].dec.allowed /\ q[p].current = q[r].current
    /\ q[p].current + q[p].size <= UploadLimit /\ q[r].current + q[r].size <= UploadLimit
    /\ RedisGet(kv, q[p].key) = q[p].current + q[p].size + q[r].size
    /\ RedisGet(kv, q[p].key) > UploadLimit

\* C26: key-format validation precedes I/O.  A download request with a
\* malformed publicKey makes no counter-store call and no backend call, and
\* is answered 400.
C26_ValidateKeyFirst ==
  \A p \in Procs :
    (h[p].kind = "download" /\ ~WellFormedPublicKey(h[p].key))
    => /\ q[p].op = "none" /\ ~h[p].backend
       /\ pc[p] = "done" => h[p].resp.status = 400

\* C27: deletion capability.  A step that removes the payload or the metadata
\* of an uploaded object is a removal by a deleteFile call whose argument is
\* the privateKey issued with that object; a deleteFile call handed a public
\* key never comes to remove anything and never succeeds; the result of
\* downloadFile has no privateKey field.
C27_DeletionCapability ==
  /\ [](\A p \in Procs :
          /\ (s[p].op = "delete" /\ s[p].priv[1] # "priv")
               => pc[p] # "rm_unlink" /\ ~s[p].ok
          /\ s[p].op = "download" => "privateKey" \notin DOMAIN s[p].res)
  /\ [][\A k \in DOMAIN uploaded :
          \/ (k \in DOMAIN files /\ k \notin DOMAIN files')
          \/ (k \in DOMAIN metas /\ k \notin DOMAIN metas')
          => \E p \in Procs :
               /\ pc[p] = "rm_unlink" /\ s[p].op = "delete" /\ s'[p] # s[p]
               /\ s[p].pub = k /\ s[p].priv = PrivateKey(k[2])]_vars

C27_Witness ==
  \E p, r \in Procs :
    /\ pc[p] = "st_ret" /\ s[p].op = "delete" /\ s[p].priv \in DOMAIN uploaded
    /\ ~s[p].ok /\ ~s[p].faulted /\ s[p].todo # {}
    /\ s[p].err.message \in {"Invalid private key", "File not found"}
    /\ pc[r] = "st_ret" /\ s[r].op = "delete" /\ s[r].ok
    /\ s[r].priv = PrivateKey(s[p].priv[2]) /\ s[p].priv \in deleted

\* C28: size-limit parsing.  parseSize maps a numeral followed by MB, in any
\* letter case, to n*1024*1024, one followed by GB to n*1024*1024*1024, a bare
\* numeral to n, and a text without any digit to 0.
C28_ParseSize ==
  calc.fn = "parseSize" =>
    LET str == calc.arg
        upper(c) == CASE c = "m" -> "M" [] c = "g" -> "G" [] c = "b" -> "B" [] OTHER -> c
        unit == [i \in 1..Len(SliceLast(str, 2)) |-> upper(SliceLast(str, 2)[i])]
        body == SliceButLast(str, 2)
        numeral(t) == t # <<>> /\ \A i \in 1..Len(t) : IsDigit(t[i])
    IN /\ (numeral(body) /\ unit = <<"M", "B">>)
            => calc.out = Num(DecimalValue(body) * 1024 * 1024)
       /\ (numeral(body) /\ unit = <<"G", "B">>)
            => calc.out = Num(DecimalValue(body) * 1024 * 1024 * 1024)
       /\ numeral(str) => calc.out = Num(DecimalValue(str))
       /\ (\A i \in 1..Len(str) : ~IsDigit(str[i])) => calc.out = Num(0)

\* C29: inactivity-period parsing.  parseInactivityPeriod maps a numeral
\* followed by d, h or m to that many days, hours or minutes, and a text with
\* another unit, without unit or without value to 30 days; the cutoff
\* computed from it is a valid time.
C29_ParsePeriod ==
  calc.fn = "parseInactivityPeriod" =>
    LET str == calc.arg
        unit == SliceLast(str, 1)
        body == SliceButLast(str, 1)
        numeral(t) == t # <<>> /\ \A i \in 1..Len(t) : IsDigit(t[i])
    IN /\ (numeral(body) /\ unit = <<"d">>) => calc.out = Num(DecimalValue(body) * 86400)
       /\ (numeral(body) /\ unit = <<"h">>) => calc.out = Num(DecimalValue(body) * 3600)
       /\ (numeral(body) /\ unit = <<"m">>) => calc.out = Num(DecimalValue(body) * 60)
       /\ (unit \notin {<<"d">>, <<"h">>, <<"m">>} \/ body = <<>>)
            => calc.out = Num(30 * 86400)
       /\ ~calc.cutoff.nan

\* C30: delete partial-failure policy.  A deleteFile call that removed the
\* payload and whose removal of the metadata failed reports success.
C30_DeleteToleratesMeta ==
  \A p \in Procs :
    (/\ pc[p] = "st_ret" /\ s[p].op = "delete" /\ s[p].failed /\ s[p].faulted
     /\ s[p].pub \notin DOMAIN files /\ s[p].pub \in DOMAIN metas)
    => s[p].ok

\* C31: admission precedes storage.  The backend's upload begins only in the
\* step that follows a checkUploadLimit decision "allowed" for the size of
\* the request's file; a request answered 429 never reached the backend; and
\* the bytes of the objects stored are covered by the client's upload counter.
C31_AdmissionFirst ==
  /\ [](LET RECURSIVE Bytes(_)
            Bytes(K) == IF K = {} THEN 0
                        ELSE LET k == CHOOSE x \in K : TRUE
                             IN uploaded[k].size + Bytes(K \ {k})
        IN /\ \A p \in Procs :
                h[p].kind = "upload" =>
                  /\ h[p].backend =>
                       (h[p].dec.allowed /\ h[p].dec.currentUsage >= h[p].file.size)
                  /\ (pc[p] = "done" /\ h[p].resp.status \in {400, 429}) => ~h[p].backend
           /\ \A c \in Ips :
                Bytes(DOMAIN uploaded) <= RedisGet(kv, DailyKey("upload", c, now)))
  /\ [][\A p \in Procs :
          (s[p].op = "none" /\ s'[p].op = "upload")
          => /\ pc[p] = "ul_ret" /\ q[p].dec.allowed /\ q[p].read
             /\ q[p].size = s'[p].file.size]_vars

C31_Witness ==
  \E p, r \in Procs :
    /\ h[p].kind = "upload" /\ pc[p] = "done" /\ h[p].resp.status = 201
    /\ uploaded # Empty
    /\ h[r].kind = "upload" /\ pc[r] = "done" /\ h[r].resp.status = 429
    /\ h[r].dec.statusCode = 429 /\ ~h[r].backend

\* the keys of the download counters
DownloadKeys == {DailyKey("download", c, t) : c \in Clients, t \in 0..MaxTicks}

\* C32: download metering order.  The backend download of a request begins
\* only after its checkDownloadLimit passed, and that check leaves the
\* counters as they are.  A download counter changes only in the INCRBY of a
\* request whose response (200) has finished, by the size returned for the
\* object; a request makes that step once; and no step of the tracking call
\* changes the request's response.
C32_MeteringOrder ==
  [][/\ \A p \in Procs :
          /\ (s[p].op = "none" /\ s'[p].op = "download")
               => (pc[p] = "dl_ret" /\ q[p].op = "download" /\ q[p].read /\ q[p].err = NoErr)
          /\ (pc[p] = "dl_get" /\ pc'[p] # "dl_get") => kv' = kv
          /\ pc'[p] = "td_incr" =>
               (pc[p] \in {"piping", "td_incr"} /\ h[p].resp.status = 200)
          /\ (pc[p] = "piping" /\ pc'[p] = "td_incr") => q'[p].size = s[p].res.size
          /\ pc[p] \in {"td_incr", "td_get", "td_expire", "td_ret"} => h'[p] = h[p]
     /\ \A k \in DownloadKeys :
          RedisGet(kv', k) # RedisGet(kv, k)
          => \E p \in Procs :
               /\ pc[p] = "td_incr" /\ pc'[p] = "td_get" /\ q[p].key = k
               /\ h[p].kind = "download" /\ h[p].resp.status = 200
               /\ q[p].size = uploaded[h[p].key].size
               /\ RedisGet(kv', k) = RedisGet(kv, k) + q[p].size]_vars

C32_Witness ==
  \E p \in Procs :
    /\ pc[p] = "td_ret" /\ h[p].kind = "download" /\ h[p].resp.status = 200
    /\ ~q[p].faulted /\ q[p].size = 2 /\ RedisGet(kv, q[p].key) = q[p].size

\* C33: expiry under concurrency.  Once every checkUploadLimit / trackDownload
\* call has returned and no counter-store call has failed, every counter key
\* holding a positive value has an expiry.
C33_ExpiryAlwaysSet ==
  (redisFaults = 0 /\ \A p \in Procs : pc[p] = "idle")
  => \A k \in DOMAIN kv : kv[k].val > 0 => kv[k].exp # NoExpiry

\* C34: delete is independent of other objects.  A deleteFile call that met no
\* failing I/O call and ran beside no sweep, for the privateKey of an object
\* whose payload and metadata are intact, succeeds, whatever the state of the
\* metadata of the other objects: it never returns an error leaving its
\* object in place.
C34_DeleteIndependent ==
  \A p \in Procs : \A k \in DOMAIN metas \cap DOMAIN files :
    (/\ pc[p] = "st_ret" /\ s[p].op = "delete" /\ ~s[p].faulted /\ sw.pc = "idle"
     /\ metas[k].valid /\ metas[k].privateKey = s[p].priv)
    => s[p].ok

\* C35: sweep counts are truthful.  When a sweep returns, every object it
\* counted in deletedCount has neither payload nor metadata left, and every
\* object for which one of the sweep's I/O calls failed is in errors and is
\* not counted.
C35_TruthfulCounts ==
  (sw.pc = "sw_ret" /\ ~sw.thrown)
  => /\ sw.deletedCount = Cardinality(sw.gone)
     /\ \A k \in sw.gone : k \notin DOMAIN files /\ k \notin DOMAIN metas
     /\ \A k \in sw.hit : k \in sw.errors /\ k \notin sw.gone

\* C36: the sweep never evicts a freshly accessed object.  In every step in
\* which the sweep removes the payload or the metadata of an object, the
\* lastAccessed stored for that object at that moment (if its metadata is
\* still stored) is strictly before the sweep's cutoff.
C36_NoFreshEviction ==
  [][(sw.pc = "sw_del" /\ (files' # files \/ metas' # metas) /\ sw' # sw)
     => (sw.cur \in DOMAIN metas /\ metas[sw.cur].valid
         => metas[sw.cur].lastAccessed < sw.cutoff)]_vars

\* C37: racing deletes.  When two deleteFile calls with the privateKey of the
\* same uploaded object have both settled, neither having met a failing I/O
\* call, at least one of them returned success and neither the payload nor
\* the metadata of the object is left.
C37_RacingDeletes ==
  \A p, r \in Procs : \A k \in DOMAIN uploaded :
    (/\ p # r /\ pc[p] = "st_ret" /\ pc[r] = "st_ret"
     /\ s[p].op = "delete" /\ s[r].op = "delete"
     /\ s[p].priv = PrivateKey(k[2]) /\ s[r].priv = s[p].priv
     /\ ~s[p].faulted /\ ~s[r].faulted)
    => /\ s[p].ok \/ s[r].ok
       /\ k \notin DOMAIN files /\ k \notin DOMAIN metas

\* C38: a denied admission has no effect on usage.  When checkUploadLimit has
\* settled with allowed = false (429 or 503) after reading the counter, and no
\* other call and no expiry touched the key meanwhile, the counter holds the
\* value the call read.
C38_DeniedLeavesUsage ==
  \A p \in Procs :
    (/\ pc[p] = "ul_ret" /\ q[p].op = "upload" /\ ~q[p].dec.allowed
     /\ q[p].read /\ ~q[p].interfered)
    => RedisGet(kv, q[p].key) = q[p].current

\* C39: bounded download overshoot.  A checkDownloadLimit call that read the
\* counter admits exactly when the value read is below the limit, whatever
\* the size of the object asked for; a request refused by it is answered 429
\* and never reaches the backend; and as long as the download requests do not
\* overlap (at most one is between its arrival and the end of its tracking),
\* every download counter stays strictly below the limit plus the size of the
\* largest object stored.
C39_BoundedOvershoot ==
  /\ [](\A p \in Procs :
          /\ (pc[p] = "dl_ret" /\ q[p].read)
               => (q[p].err = NoErr <=> q[p].current < DownloadLimit)
          /\ (h[p].kind = "download" /\ pc[p] = "done"
               /\ (h[p].mwErr.statusCode = 429 \/ h[p].ctlErr.statusCode = 429))
               => (h[p].resp.status = 429 /\ ~h[p].backend))
  /\ ([](Cardinality({p \in Procs : h[p].kind = "download" /\ pc[p] # "done"}) <= 1)
      => [](\A k \in DownloadKeys : \A j \in DOMAIN uploaded :
              (\A i \in DOMAIN uploaded : uploaded[i].size <= uploaded[j].size)
              => RedisGet(kv, k) < DownloadLimit + uploaded[j].size))

C39_Witness ==
  \E p \in Procs : \E k \in DownloadKeys :
    /\ h[p].kind = "download" /\ pc[p] = "done"
    /\ h[p].mwErr = DownloadLimitError /\ h[p].resp.status = 429 /\ ~h[p].backend
    /\ RedisGet(kv, k) > DownloadLimit
    /\ \A r \in Procs \ {p} : pc[r] = "idle"

\* C40: delete frame.  Every step of a deleteFile(x) call leaves the quota
\* counters as they are, creates nothing, and leaves payload and metadata of
\* every object unchanged except that a removal step removes the payload or
\* the metadata of the one object issued with privateKey x (the key in its
\* metadata); and a call that returned success while no other backend call
\* was in flight has left neither payload nor metadata of that object.
C40_DeleteFrame ==
  /\ [][\A p \in Procs :
          (s[p].op = "delete" /\ s'[p] # s[p])
          => /\ kv' = kv
             /\ DOMAIN files' \subseteq DOMAIN files /\ DOMAIN metas' \subseteq DOMAIN metas
             /\ \A k \in DOMAIN files \cup DOMAIN metas :
                  \/ /\ k \in DOMAIN files => (k \in DOMAIN files' /\ files'[k] = files[k])
                     /\ k \in DOMAIN metas => (k \in DOMAIN metas' /\ metas'[k] = metas[k])
                  \/ /\ pc[p] = "rm_unlink" /\ k = s[p].pub
                     /\ s[p].priv = PrivateKey(k[2])
                     /\ k \in DOMAIN metas => metas[k].privateKey = s[p].priv]_vars
  /\ ([](Cardinality({p \in Procs : s[p].op # "none"}) <= 1)
      => [](\A p \in Procs :
              (pc[p] = "st_ret" /\ s[p].op = "delete" /\ s[p].ok)
              => /\ s[p].priv = PrivateKey(s[p].pub[2])
                 /\ s[p].pub \notin DOMAIN files /\ s[p].pub \notin DOMAIN metas))

C40_Witness ==
  \E p \in Procs : \E j \in DOMAIN files \cap DOMAIN metas :
    /\ pc[p] = "st_ret" /\ s[p].op = "delete" /\ s[p].ok
    /\ s[p].pub \notin DOMAIN files /\ s[p].pub \notin DOMAIN metas
    /\ j # s[p].pub /\ metas[j] = Metadata(PrivateKey(j[2]), uploaded[j], 0)
    /\ files[j].data = uploaded[j].data
    /\ \E k \in UploadKeys : RedisGet(kv, k) = UploadLimit

====
